---- MODULE Spec2Model ----
(***************************************************************************)
(* A model of the Malta-law retrieval system: the corrective pipeline of   *)
(* legal_crag.py (grade -> generate -> validate -> threshold), the         *)
(* provision segmenter and chunk builder of doc_processor.py, and the      *)
(* retrieval gateway of vector_store.py.                                   *)
(*                                                                         *)
(* Text is modelled as a sequence of one-character strings, so that the    *)
(* substring tests, the regular expressions and the parsers of the source  *)
(* are computed on characters as the code computes them.  A float is       *)
(* modelled as an exact fraction [num, den].                               *)
(***************************************************************************)
EXTENDS Integers, Sequences, FiniteSets, TLC

(***************************************************************************)
(* Text helpers: the str methods the source uses.                          *)
(***************************************************************************)
UpperLetters ==
    <<"A","B","C","D","E","F","G","H","I","J","K","L","M",
      "N","O","P","Q","R","S","T","U","V","W","X","Y","Z">>

LowerLetters ==
    <<"a","b","c","d","e","f","g","h","i","j","k","l","m",
      "n","o","p","q","r","s","t","u","v","w","x","y","z">>

DigitChars == <<"0","1","2","3","4","5","6","7","8","9">>

\* index of character c in the sequence s, 0 when absent
IndexOf(s, c) ==
    IF \E i \in 1..Len(s) : s[i] = c
    THEN CHOOSE i \in 1..Len(s) : s[i] = c
    ELSE 0

\* str.upper()
Upper(s) ==
    [i \in 1..Len(s) |->
        IF IndexOf(LowerLetters, s[i]) > 0 THEN UpperLetters[IndexOf(LowerLetters, s[i])]
        ELSE s[i]]

\* str.lower()
Lower(s) ==
    [i \in 1..Len(s) |->
        IF IndexOf(UpperLetters, s[i]) > 0 THEN LowerLetters[IndexOf(UpperLetters, s[i])]
        ELSE s[i]]

IsSpace(c) == c \in {" ", "\n", "\t"}

IsDigit(c) == IndexOf(DigitChars, c) > 0

\* `needle in hay`
Contains(hay, needle) ==
    \E i \in 0..(Len(hay) - Len(needle)) :
        SubSeq(hay, i + 1, i + Len(needle)) = needle

\* str.strip(): whitespace removed at both ends
Strip(s) ==
    LET keep == {i \in 1..Len(s) : ~IsSpace(s[i])}
    IN  IF keep = {} THEN <<>>
        ELSE SubSeq(s, CHOOSE i \in keep : \A j \in keep : i <= j,
                       CHOOSE i \in keep : \A j \in keep : i >= j)

\* str.strip(chars): the characters of the set removed at both ends
StripChars(s, chars) ==
    LET keep == {i \in 1..Len(s) : s[i] \notin chars}
    IN  IF keep = {} THEN <<>>
        ELSE SubSeq(s, CHOOSE i \in keep : \A j \in keep : i <= j,
                       CHOOSE i \in keep : \A j \in keep : i >= j)

\* position of the first occurrence of character c at or after i, 0 when none
FindFrom(s, c, i) ==
    LET hits == {j \in i..Len(s) : s[j] = c}
    IN  IF hits = {} THEN 0 ELSE CHOOSE j \in hits : \A k \in hits : j <= k

RECURSIVE SplitOn(_, _)
\* str.split(sep) for a one-character separator
SplitOn(s, sep) ==
    LET p == FindFrom(s, sep, 1)
    IN  IF p = 0 THEN <<s>>
        ELSE <<SubSeq(s, 1, p - 1)>> \o SplitOn(SubSeq(s, p + 1, Len(s)), sep)

\* str.split(sep, 1): at most one split
SplitOnce(s, sep) ==
    LET p == FindFrom(s, sep, 1)
    IN  IF p = 0 THEN <<s>>
        ELSE <<SubSeq(s, 1, p - 1), SubSeq(s, p + 1, Len(s))>>

(***************************************************************************)
(* Floats as exact fractions.                                              *)
(***************************************************************************)
Frac(n, d) == [num |-> n, den |-> d]

FracLT(a, b) == a.num * b.den < b.num * a.den

FracLE(a, b) == a.num * b.den <= b.num * a.den

FracEq(a, b) == a.num * b.den = b.num * a.den

\* Python's min(a, b): the first argument unless the second is smaller
FracMin(a, b) == IF FracLT(b, a) THEN b ELSE a

RECURSIVE DigitsValue(_)
\* int() of a run of digits
DigitsValue(ds) ==
    IF ds = <<>> THEN 0
    ELSE 10 * DigitsValue(SubSeq(ds, 1, Len(ds) - 1)) + (IndexOf(DigitChars, ds[Len(ds)]) - 1)

RECURSIVE PowerOfTen(_)
PowerOfTen(k) == IF k = 0 THEN 1 ELSE 10 * PowerOfTen(k - 1)

\* end of the maximal run of digits that starts at i (i - 1 when s[i] is no digit)
DigitRunEnd(s, i) ==
    LET stops == {j \in i..Len(s) : ~IsDigit(s[j])}
    IN  IF stops = {} THEN Len(s)
        ELSE (CHOOSE j \in stops : \A k \in stops : j <= k) - 1

RECURSIVE InsertByKey(_, _)
\* an entry put after the entries of a sorted list whose key is not above its own
InsertByKey(sorted, entry) ==
    IF sorted = <<>> THEN <<entry>>
    ELSE IF FracLT(entry.key, Head(sorted).key) THEN <<entry>> \o sorted
    ELSE <<Head(sorted)>> \o InsertByKey(Tail(sorted), entry)

RECURSIVE SortByKey(_)
SortByKey(entries) ==
    IF entries = <<>> THEN <<>>
    ELSE InsertByKey(SortByKey(SubSeq(entries, 1, Len(entries) - 1)), entries[Len(entries)])

\* list.sort(key=...): the items in ascending order of their keys, items of equal
\* key in the order they had
Sorted(items, keys) ==
    LET s == SortByKey([k \in 1..Len(items) |-> [key |-> keys[k], item |-> items[k]]])
    IN  [k \in 1..Len(s) |-> s[k].item]

(***************************************************************************)
(* legal_crag.py: constants and the texts the oracle may return.           *)
(***************************************************************************)
\* LegalCRAG.CONFIDENCE_THRESHOLD = 0.85
CONFIDENCE_THRESHOLD == Frac(85, 100)

\* the default of _parse_confidence and the no-citation score of _check_citations
HALF == Frac(1, 2)

\* GRADE_IRRELEVANT = "IRRELEVANT"
GRADE_IRRELEVANT ==
    <<"I","R","R","E","L","E","V","A","N","T">>

\* MARK_GROUNDED = "GROUNDED:"
MARK_GROUNDED ==
    <<"G","R","O","U","N","D","E","D",":">>

\* MARK_CONFIDENCE = "CONFIDENCE:"
MARK_CONFIDENCE ==
    <<"C","O","N","F","I","D","E","N","C","E",":">>

\* MARK_ISSUES = "ISSUES:"
MARK_ISSUES ==
    <<"I","S","S","U","E","S",":">>


\* INSUFFICIENT_ANSWER = "Insufficient information in retrieved documents to answer this question about Malta law."
INSUFFICIENT_ANSWER ==
    <<"I","n","s","u","f","f","i","c","i","e","n","t"," ","i","n","f","o","r","m","a","t","i",
      "o","n"," ","i","n"," ","r","e","t","r","i","e","v","e","d"," ","d","o","c","u","m","e",
      "n","t","s"," ","t","o"," ","a","n","s","w","e","r"," ","t","h","i","s"," ","q","u","e",
      "s","t","i","o","n"," ","a","b","o","u","t"," ","M","a","l","t","a"," ","l","a","w",".">>

\* LOW_CONFIDENCE_OPEN = "[LOW CONFIDENCE - "
LOW_CONFIDENCE_OPEN ==
    <<"[","L","O","W"," ","C","O","N","F","I","D","E","N","C","E"," ","-"," ">>

\* LOW_CONFIDENCE_CLOSE = "] "
LOW_CONFIDENCE_CLOSE ==
    <<"]"," ">>

(***************************************************************************)
(* legal_crag.py: the pure functions of the pipeline.                      *)
(***************************************************************************)
\* retrieved candidates as test_legal_crag.py builds them, with the citations
\* "Civil Code Cap. 16, Article 965-966" and "Income Tax Act Cap. 123, Article 56";
\* doc_3 has no metadata, so metadata.get('citation', '') and
\* metadata.get('article', '') are both ''
DocPool ==
    {[id |-> "doc_1",
      metadata |-> [citation |-> <<"C","i","v","i","l"," ","C","o","d","e"," ","C","a","p",".",
                                   " ","1","6",","," ","A","r","t","i","c","l","e"," ","9","6",
                                   "5","-","9","6","6">>,
                    article  |-> <<"9","6","5">>]],
     [id |-> "doc_2",
      metadata |-> [citation |-> <<"I","n","c","o","m","e"," ","T","a","x"," ","A","c","t"," ",
                                   "C","a","p","."," ","1","2","3",","," ","A","r","t","i","c",
                                   "l","e"," ","5","6">>,
                    article  |-> <<"5","6">>]],
     [id |-> "doc_3", metadata |-> [citation |-> <<>>, article |-> <<>>]]}

\* the longest candidate list handed to answer_legal_question
MaxDocs == 2

\* candidate lists: the index returns each stored chunk at most once
RetrievedLists ==
    UNION {{s \in [1..n -> DocPool] : \A i, j \in 1..n : i # j => s[i] # s[j]} : n \in 0..MaxDocs}

\* the texts the oracle may give to a grading prompt
GradeReplies ==
    \* "RELEVANT"
    {<<"R","E","L","E","V","A","N","T">>,
    \* " IRRELEVANT\n"
     <<" ","I","R","R","E","L","E","V","A","N","T","\n">>,
    \* "Partial"
     <<"P","a","r","t","i","a","l">>,
    \* "Not sure"
     <<"N","o","t"," ","s","u","r","e">>}

\* the texts the oracle may give to a generation prompt
GenerationReplies ==
    \* "35% [Income Tax Act Cap. 123, Article 56]"
    {<<"3","5","%"," ","[","I","n","c","o","m","e"," ","T","a","x"," ","A","c","t"," ","C","a",
       "p","."," ","1","2","3",","," ","A","r","t","i","c","l","e"," ","5","6","]">>,
    \* "[Article 965] and [Art. 7]"
     <<"[","A","r","t","i","c","l","e"," ","9","6","5","]"," ","a","n","d"," ","[","A","r","t",
       "."," ","7","]">>,
    \* "[article 56] [Cap. 9] [Reg. 2]"
     <<"[","a","r","t","i","c","l","e"," ","5","6","]"," ","[","C","a","p","."," ","9","]"," ",
       "[","R","e","g","."," ","2","]">>,
    \* "See [ ]."
     <<"S","e","e"," ","["," ","]",".">>,
    \* "Void [] [Article 5"
     <<"V","o","i","d"," ","[","]"," ","[","A","r","t","i","c","l","e"," ","5">>,
    \* "[Article 56(13)] 35 [art. 965]\n"
     <<"[","A","r","t","i","c","l","e"," ","5","6","(","1","3",")","]"," ","3","5"," ","[","a",
       "r","t","."," ","9","6","5","]","\n">>,
    \* "[Article 9650]"
     <<"[","A","r","t","i","c","l","e"," ","9","6","5","0","]">>}

\* the texts the oracle may give to a validation prompt
ValidationReplies ==
    \* "GROUNDED: YES\nCONFIDENCE: 0.9\nISSUES: None"
    {<<"G","R","O","U","N","D","E","D",":"," ","Y","E","S","\n","C","O","N","F","I","D","E","N",
       "C","E",":"," ","0",".","9","\n","I","S","S","U","E","S",":"," ","N","o","n","e">>,
    \* "GROUNDED: NO\nCONFIDENCE: 0.3\nISSUES: [wrong article, "bad quote"]"
     <<"G","R","O","U","N","D","E","D",":"," ","N","O","\n","C","O","N","F","I","D","E","N","C",
       "E",":"," ","0",".","3","\n","I","S","S","U","E","S",":"," ","[","w","r","o","n","g"," ",
       "a","r","t","i","c","l","e",","," ","\"","b","a","d"," ","q","u","o","t","e","\"","]">>,
    \* "CONFIDENCE: 85%\nGROUNDED: YES"
     <<"C","O","N","F","I","D","E","N","C","E",":"," ","8","5","%","\n","G","R","O","U","N","D",
       "E","D",":"," ","Y","E","S">>,
    \* "Looks fine."
     <<"L","o","o","k","s"," ","f","i","n","e",".">>,
    \* "CONFIDENCE: high\nUNGROUNDED: NO"
     <<"C","O","N","F","I","D","E","N","C","E",":"," ","h","i","g","h","\n","U","N","G","R","O",
       "U","N","D","E","D",":"," ","N","O">>,
    \* "Confidence: 0.85\nGrounded: Yes\nIssues: none"
     <<"C","o","n","f","i","d","e","n","c","e",":"," ","0",".","8","5","\n","G","r","o","u","n",
       "d","e","d",":"," ","Y","e","s","\n","I","s","s","u","e","s",":"," ","n","o","n","e">>}

\* _call_llm returns the completion's text stripped
CallLLMResult(raw) == Strip(raw)

\* the parse that looks for RELEVANT before it looks for IRRELEVANT
ParseGradeRelevantFirst(response) ==
    IF Contains(Upper(response), <<"R","E","L","E","V","A","N","T">>)
    THEN [grade |-> "RELEVANT", confidence |-> Frac(95, 100)]
    ELSE IF Contains(Upper(response), <<"P","A","R","T","I","A","L">>)
    THEN [grade |-> "PARTIAL", confidence |-> Frac(70, 100)]
    ELSE [grade |-> "PARTIAL", confidence |-> Frac(50, 100)]

\* grade_documents, lines 267-281: the grade and its fixed confidence prior
ParseGrade(response) ==
    LET response_upper == Strip(Upper(response))
    IN  IF Contains(response_upper, <<"R","E","L","E","V","A","N","T">>) /\ ~Contains(response_upper, GRADE_IRRELEVANT)
        THEN [grade |-> "RELEVANT", confidence |-> Frac(95, 100)]
        ELSE IF Contains(response_upper, GRADE_IRRELEVANT)
        THEN [grade |-> "IRRELEVANT", confidence |-> Frac(90, 100)]
        ELSE IF Contains(response_upper, <<"P","A","R","T","I","A","L">>)
        THEN [grade |-> "PARTIAL", confidence |-> Frac(70, 100)]
        ELSE [grade |-> "PARTIAL", confidence |-> Frac(50, 100)]

\* grade_documents, lines 283-288
DocumentGrade(doc, response) ==
    [document_id |-> doc.id,
     grade       |-> ParseGrade(response).grade,
     reasoning   |-> response,
     confidence  |-> ParseGrade(response).confidence]

\* the filter keeping the RELEVANT candidates alone
RECURSIVE FilterRelevantOnly(_, _)
FilterRelevantOnly(docs, gs) ==
    IF docs = <<>> \/ gs = <<>> THEN <<>>
    ELSE (IF Head(gs).grade = "RELEVANT" THEN <<Head(docs)>> ELSE <<>>)
         \o FilterRelevantOnly(Tail(docs), Tail(gs))

\* answer_legal_question, lines 501-504: the candidates graded RELEVANT or PARTIAL
RECURSIVE FilterRelevant(_, _)
FilterRelevant(docs, gs) ==
    IF docs = <<>> \/ gs = <<>> THEN <<>>
    ELSE (IF Head(gs).grade \in {"RELEVANT", "PARTIAL"} THEN <<Head(docs)>> ELSE <<>>)
         \o FilterRelevant(Tail(docs), Tail(gs))

\* the first line of the reply whose upper-case form contains the marker
FirstLineWith(response, marker) ==
    LET lines == SplitOn(response, "\n")
        hits  == {i \in 1..Len(lines) : Contains(Upper(lines[i]), marker)}
    IN  lines[CHOOSE i \in hits : \A j \in hits : i <= j]

_parse_grounded(response) ==
    IF Contains(Upper(response), MARK_GROUNDED)
    THEN Contains(Upper(FirstLineWith(response, MARK_GROUNDED)), <<"Y","E","S">>)
    ELSE FALSE

\* re.search(r'(\d+\.?\d*)', line): <<first, last>> of the match, <<0, 0>> when none
NumberMatch(line) ==
    LET starts == {i \in 1..Len(line) : IsDigit(line[i])}
    IN  IF starts = {} THEN <<0, 0>>
        ELSE LET p  == CHOOSE i \in starts : \A j \in starts : i <= j
                 e1 == DigitRunEnd(line, p)
             IN  IF e1 < Len(line) /\ line[e1 + 1] = "."
                 THEN <<p, IF e1 + 1 < Len(line) THEN DigitRunEnd(line, e1 + 2) ELSE e1 + 1>>
                 ELSE <<p, e1>>

\* float() of a text matched by \d+\.?\d*
ParseFloat(text) ==
    LET dot      == FindFrom(text, ".", 1)
        intPart  == IF dot = 0 THEN text ELSE SubSeq(text, 1, dot - 1)
        fracPart == IF dot = 0 THEN <<>> ELSE SubSeq(text, dot + 1, Len(text))
    IN  Frac(DigitsValue(intPart \o fracPart), PowerOfTen(Len(fracPart)))

\* the parse that takes a reply without a usable CONFIDENCE line as full confidence
ParseConfidenceDefaultingToOne(response) ==
    IF Contains(Upper(response), MARK_CONFIDENCE)
         /\ NumberMatch(FirstLineWith(response, MARK_CONFIDENCE))[1] > 0
    THEN ParseFloat(SubSeq(FirstLineWith(response, MARK_CONFIDENCE),
                           NumberMatch(FirstLineWith(response, MARK_CONFIDENCE))[1],
                           NumberMatch(FirstLineWith(response, MARK_CONFIDENCE))[2]))
    ELSE Frac(1, 1)

\* _parse_confidence, lines 397-408
_parse_confidence(response) ==
    IF Contains(Upper(response), MARK_CONFIDENCE)
    THEN LET conf_line == FirstLineWith(response, MARK_CONFIDENCE)
             m == NumberMatch(conf_line)
         IN  IF m[1] > 0 THEN ParseFloat(SubSeq(conf_line, m[1], m[2])) ELSE HALF
    ELSE HALF

RECURSIVE CleanIssues(_)
\* _parse_issues, lines 422-426: each item stripped, the empty ones dropped
CleanIssues(items) ==
    IF items = <<>> THEN <<>>
    ELSE LET i == StripChars(Strip(Head(items)), {"[", "]", "\"", "'"})
         IN  (IF i = <<>> THEN <<>> ELSE <<i>>) \o CleanIssues(Tail(items))

_parse_issues(response) ==
    IF Contains(Upper(response), MARK_ISSUES)
    THEN LET issues_text == Strip(SplitOnce(FirstLineWith(response, MARK_ISSUES), ":")[2])
         IN  IF Contains(Upper(issues_text), <<"N","O","N","E">>) \/ issues_text = <<"[", "]">>
             THEN <<>>
             ELSE CleanIssues(SplitOn(issues_text, ","))
    ELSE <<>>

RECURSIVE FindAllCitations(_, _)
\* re.findall(r'\[([^\]]+)\]', answer) scanning from position i
FindAllCitations(answer, i) ==
    IF i > Len(answer) THEN <<>>
    ELSE IF answer[i] # "[" THEN FindAllCitations(answer, i + 1)
    ELSE LET close == FindFrom(answer, "]", i + 1)
         IN  IF close = 0 THEN <<>>
             ELSE IF close = i + 1 THEN FindAllCitations(answer, i + 1)
             ELSE <<SubSeq(answer, i + 1, close - 1)>> \o FindAllCitations(answer, close + 1)

\* _check_citations, lines 444-452
AvailableCitations(source_docs) ==
    {source_docs[k].metadata.citation :
        k \in {k \in 1..Len(source_docs) : source_docs[k].metadata.citation # <<>>}}
    \cup
    {<<"A","r","t","i","c","l","e"," ">> \o source_docs[k].metadata.article :
        k \in {k \in 1..Len(source_docs) : source_docs[k].metadata.article # <<>>}}

\* a citation counted only when an available citation occurs inside it
CitationIsValidOneWay(citation, available_citations) ==
    \E avail \in available_citations : Contains(Lower(Strip(citation)), Lower(avail))

\* _check_citations, lines 457-462
CitationIsValid(citation, available_citations) ==
    LET c == Lower(Strip(citation))
    IN  \E avail \in available_citations :
            Contains(c, Lower(avail)) \/ Contains(Lower(avail), c)

\* the check that takes an answer without citations as fully accurate
CheckCitationsTrustingUncited(answer, source_docs) ==
    IF FindAllCitations(answer, 1) = <<>> THEN Frac(1, 1)
    ELSE Frac(Cardinality({k \in 1..Len(FindAllCitations(answer, 1)) :
                              CitationIsValid(FindAllCitations(answer, 1)[k],
                                              AvailableCitations(source_docs))}),
              Len(FindAllCitations(answer, 1)))

\* _check_citations, lines 429-468
_check_citations(answer, source_docs) ==
    LET citations == FindAllCitations(answer, 1)
        available_citations == AvailableCitations(source_docs)
        valid_citations ==
            Cardinality({k \in 1..Len(citations) :
                            CitationIsValid(citations[k], available_citations)})
    IN  IF citations = <<>> THEN HALF
        ELSE Frac(valid_citations, Len(citations))

\* validate_answer with the confidence left uncapped
ValidateAnswerUncapped(answer, source_docs, response) ==
    [grounded          |-> _parse_grounded(response),
     confidence        |-> _parse_confidence(response),
     issues            |-> _parse_issues(response),
     citation_accuracy |-> _check_citations(answer, source_docs)]

\* validate_answer, lines 369-385, on the oracle's reply
ValidateAnswer(answer, source_docs, response) ==
    [grounded          |-> _parse_grounded(response),
     confidence        |-> FracMin(_parse_confidence(response),
                                   _check_citations(answer, source_docs)),
     issues            |-> _parse_issues(response),
     citation_accuracy |-> _check_citations(answer, source_docs)]

\* f"{x:.2f}" for 0 <= x < 10, rounding the exact fraction half up
FormatTwoDecimals(x) ==
    LET h == (200 * x.num + x.den) \div (2 * x.den)
    IN  <<DigitChars[(h \div 100) + 1], ".",
          DigitChars[((h \div 10) % 10) + 1], DigitChars[(h % 10) + 1]>>

\* the threshold stage flagging a confidence equal to the threshold as well
ApplyThresholdInclusive(answer, confidence) ==
    IF FracLE(confidence, CONFIDENCE_THRESHOLD)
    THEN LOW_CONFIDENCE_OPEN \o FormatTwoDecimals(confidence) \o LOW_CONFIDENCE_CLOSE \o answer
    ELSE answer

\* answer_legal_question, lines 540-546
ApplyThreshold(answer, confidence) ==
    IF FracLT(confidence, CONFIDENCE_THRESHOLD)
    THEN LOW_CONFIDENCE_OPEN \o FormatTwoDecimals(confidence) \o LOW_CONFIDENCE_CLOSE \o answer
    ELSE answer

(***************************************************************************)
(* State.                                                                  *)
(***************************************************************************)
VARIABLES
    pc,              \* where answer_legal_question stands
    retrieved_docs,  \* its argument
    grades,          \* the DocumentGrades made so far
    relevant_docs,   \* the evidence set
    answer,          \* what generate_answer returned
    validation,      \* <<>> or <<the ValidationResult>>
    response,        \* <<>> or <<the CRAGResponse returned>>
    llm_calls,       \* the calls made to the oracle, in order
    stage_log,       \* the stages completed, in order
    \* DocumentProcessor._create_chunks
    ck_pc,           \* where _create_chunks stands
    max_tokens,      \* self.max_tokens
    overlap_tokens,  \* self.overlap_tokens
    n_tokens,        \* len(tokens) of the article at hand
    start,           \* the window's first token
    chunk_index,     \* the index of the next chunk
    chunks,          \* the chunks made so far
    \* DocumentProcessor._extract_articles
    seg_pc,          \* where _extract_articles stands
    document,        \* content, as a sequence of tokens
    articles,        \* the articles accepted so far
    prev_val,        \* the key of the last accepted article
    seen_ids,        \* the labels accepted so far
    \* VectorStore
    st_pc,           \* where the store stands
    collection,      \* the chunks of the collection, in the order they were added
    query,           \* the text of the last search
    n_results,       \* the number of results the last search asked for
    results,         \* what the last search returned
    \* process_all_documents
    ing_pc,          \* where the batch stands
    files,           \* the files of the batch, sorted by name
    file_idx,        \* the file the loop is at
    processor,       \* the document fields of the DocumentProcessor
    processed_chunks, \* the content of processed_chunks.json
    all_chunks,      \* the chunks gathered over the batch
    emitted,         \* every chunk made, with the file it was made from
    reprocessed,     \* <<>> or <<the file processed a second time, with its chunks>>
    \* SearchEngine
    eng_pc,          \* where SearchEngine.search stands
    eng_collection,  \* the chunks of the vector store the engine searches
    eng_query,       \* the query of the search, stripped
    query_analysis,  \* <<>> or <<what _analyze_query returned>>
    store_calls,     \* the calls made to the vector store, in order
    eng_results,     \* the results the search returned
    \* process_document runs that overlap in time
    run_pc,          \* where the run over each file of the batch stands
    run_chunks,      \* all_chunks of each run
    collected,       \* the chunks the caller of each run read back
    \* page_for_index
    pg_pc,           \* where the page lookup stands
    pg_positions,    \* page_positions: the page markers found, ascending by offset
    pg_idx,          \* idx: the offset of the match looked up
    pg_page          \* the page returned

cragVars ==
    <<pc, retrieved_docs, grades, relevant_docs, answer, validation, response,
      llm_calls, stage_log>>

chunkVars == <<ck_pc, max_tokens, overlap_tokens, n_tokens, start, chunk_index, chunks>>

segVars == <<seg_pc, document, articles, prev_val, seen_ids>>

storeVars == <<st_pc, collection, query, n_results, results>>

ingestVars ==
    <<ing_pc, files, file_idx, processor, processed_chunks, all_chunks, emitted, reprocessed>>

engineVars ==
    <<eng_pc, eng_collection, eng_query, query_analysis, store_calls, eng_results>>

runVars == <<run_pc, run_chunks, collected>>

pageVars == <<pg_pc, pg_positions, pg_idx, pg_page>>

vars == <<cragVars, chunkVars, segVars, storeVars, ingestVars, engineVars, runVars, pageVars>>

\* what each component leaves alone
nonCragVars == <<chunkVars, segVars, storeVars, ingestVars, engineVars, runVars, pageVars>>

nonChunkVars == <<cragVars, segVars, storeVars, ingestVars, engineVars, runVars, pageVars>>

nonSegVars == <<cragVars, chunkVars, storeVars, ingestVars, engineVars, runVars, pageVars>>

nonStoreVars == <<cragVars, chunkVars, segVars, ingestVars, engineVars, runVars, pageVars>>

nonIngestVars == <<cragVars, chunkVars, segVars, storeVars, engineVars, runVars, pageVars>>

\* what the overlapping runs, which work on the state of the batch, leave alone
nonRunVars == <<cragVars, chunkVars, segVars, storeVars, engineVars, pageVars>>

nonEngineVars == <<cragVars, chunkVars, segVars, storeVars, ingestVars, runVars, pageVars>>

nonPageVars ==
    <<cragVars, chunkVars, segVars, storeVars, ingestVars, engineVars, runVars>>

(***************************************************************************)
(* answer_legal_question, one action per stretch between oracle calls.     *)
(***************************************************************************)
CragInit ==
    /\ pc = "idle"
    /\ retrieved_docs = <<>>
    /\ grades = <<>>
    /\ relevant_docs = <<>>
    /\ answer = <<>>
    /\ validation = <<>>
    /\ response = <<>>
    /\ llm_calls = <<>>
    /\ stage_log = <<>>

DocIds(docs) == [k \in 1..Len(docs) |-> docs[k].id]

LLMCall(kind, docs, ok, reply) ==
    [kind |-> kind, docs |-> DocIds(docs), ok |-> ok, reply |-> reply]

\* the pipeline with the validation stage skipped after generation
StageAfterSkippingValidation(stage) ==
    CASE stage = "grade"     -> "generate"
      [] stage = "generate"  -> "threshold"
      [] stage = "validate"  -> "threshold"
      [] stage = "threshold" -> "done"

\* answer_legal_question, lines 498-564: the stage that follows a completed stage
StageAfter(stage) ==
    CASE stage = "grade"     -> "generate"
      [] stage = "generate"  -> "validate"
      [] stage = "validate"  -> "threshold"
      [] stage = "threshold" -> "done"

\* the caller hands the candidates over
AnswerLegalQuestion ==
    /\ pc = "idle"
    /\ retrieved_docs' \in RetrievedLists
    /\ pc' = "grade"
    /\ UNCHANGED <<grades, relevant_docs, answer, validation, response, llm_calls, stage_log>>
    /\ UNCHANGED nonCragVars

\* grade_documents: one iteration of the loop over the candidates
GradeDocument ==
    /\ pc = "grade"
    /\ Len(grades) < Len(retrieved_docs)
    /\ \E raw \in GradeReplies :
         LET doc == retrieved_docs[Len(grades) + 1]
         IN  /\ grades' = Append(grades, DocumentGrade(doc, CallLLMResult(raw)))
             /\ llm_calls' = Append(llm_calls, LLMCall("grade", <<doc>>, TRUE, CallLLMResult(raw)))
    /\ UNCHANGED <<pc, retrieved_docs, relevant_docs, answer, validation, response, stage_log>>
    /\ UNCHANGED nonCragVars

\* grade_documents returns; the IRRELEVANT candidates are filtered out
GradingDone ==
    /\ pc = "grade"
    /\ Len(grades) = Len(retrieved_docs)
    /\ relevant_docs' = FilterRelevant(retrieved_docs, grades)
    /\ stage_log' = Append(stage_log, "grade")
    /\ pc' = StageAfter("grade")
    /\ UNCHANGED <<retrieved_docs, grades, answer, validation, response, llm_calls>>
    /\ UNCHANGED nonCragVars

\* generate_answer always asking the oracle
GenerateAsksOracleAlways(docs) == TRUE

\* generate_answer, line 310: the oracle is asked only with evidence at hand
GenerateAsksOracle(docs) == docs # <<>>

\* generate_answer on an empty evidence set
GenerateInsufficient ==
    /\ pc = "generate"
    /\ ~GenerateAsksOracle(relevant_docs)
    /\ answer' = INSUFFICIENT_ANSWER
    /\ stage_log' = Append(stage_log, "generate")
    /\ pc' = StageAfter("generate")
    /\ UNCHANGED <<retrieved_docs, grades, relevant_docs, validation, response, llm_calls>>
    /\ UNCHANGED nonCragVars

\* generate_answer asking the oracle
GenerateAnswer ==
    /\ pc = "generate"
    /\ GenerateAsksOracle(relevant_docs)
    /\ \E raw \in GenerationReplies :
         /\ answer' = CallLLMResult(raw)
         /\ llm_calls' = Append(llm_calls,
                                LLMCall("generate", relevant_docs, TRUE, CallLLMResult(raw)))
    /\ stage_log' = Append(stage_log, "generate")
    /\ pc' = StageAfter("generate")
    /\ UNCHANGED <<retrieved_docs, grades, relevant_docs, validation, response>>
    /\ UNCHANGED nonCragVars

\* validate_answer
ValidateAnswerCall ==
    /\ pc = "validate"
    /\ \E raw \in ValidationReplies :
         /\ validation' = <<ValidateAnswer(answer, relevant_docs, CallLLMResult(raw))>>
         /\ llm_calls' = Append(llm_calls,
                                LLMCall("validate", relevant_docs, TRUE, CallLLMResult(raw)))
    /\ stage_log' = Append(stage_log, "validate")
    /\ pc' = StageAfter("validate")
    /\ UNCHANGED <<retrieved_docs, grades, relevant_docs, answer, response>>
    /\ UNCHANGED nonCragVars

\* the threshold stage and the CRAGResponse returned
ThresholdAndRespond ==
    /\ pc = "threshold"
    /\ response' =
         <<[answer            |-> ApplyThreshold(answer, validation[1].confidence),
            confidence        |-> validation[1].confidence,
            grounded          |-> validation[1].grounded,
            relevant_docs     |-> relevant_docs,
            validation_result |-> validation[1],
            grade_details     |-> grades]>>
    /\ stage_log' = Append(stage_log, "threshold")
    /\ pc' = StageAfter("threshold")
    /\ UNCHANGED <<retrieved_docs, grades, relevant_docs, answer, validation, llm_calls>>
    /\ UNCHANGED nonCragVars

\* the kind of oracle call the pipeline is about to make, "none" when it makes none
PendingCall ==
    IF pc = "grade" /\ Len(grades) < Len(retrieved_docs) THEN "grade"
    ELSE IF pc = "generate" /\ GenerateAsksOracle(relevant_docs) THEN "generate"
    ELSE IF pc = "validate" THEN "validate"
    ELSE "none"

\* a caller that catches the error of a failed call and asks again
StageAfterFailureRetrying(kind) == kind

\* _call_llm, lines 226-227: the RuntimeError of a failed call of this kind is caught
\* by no caller, so it ends answer_legal_question
StageAfterFailure(kind) == "error"

\* _call_llm raises RuntimeError: the invocation ends without a response
LLMCallFails ==
    /\ PendingCall # "none"
    /\ llm_calls' = Append(llm_calls,
                           LLMCall(PendingCall,
                                   IF PendingCall = "grade"
                                   THEN <<retrieved_docs[Len(grades) + 1]>>
                                   ELSE relevant_docs,
                                   FALSE, <<>>))
    /\ pc' = StageAfterFailure(PendingCall)
    /\ UNCHANGED <<retrieved_docs, grades, relevant_docs, answer, validation, response,
                   stage_log>>
    /\ UNCHANGED nonCragVars

CragNext ==
    \/ AnswerLegalQuestion
    \/ GradeDocument
    \/ GradingDone
    \/ GenerateInsufficient
    \/ GenerateAnswer
    \/ ValidateAnswerCall
    \/ ThresholdAndRespond
    \/ LLMCallFails

(***************************************************************************)
(* doc_processor.py: _create_chunks.  A chunk is the window [first, last)  *)
(* of the article's token stream.                                          *)
(***************************************************************************)
\* DocumentProcessor.__init__: self.max_tokens
MAX_TOKENS == 3000

\* DocumentProcessor.__init__: self.overlap_tokens
OVERLAP_TOKENS == 200

\* the largest budget among the small configurations explored beside the real one
MaxSmallBudget == 3

\* articles hold up to MaxWindows * max_tokens tokens
MaxWindows == 3

ChunkConfigs ==
    {[max_tokens |-> MAX_TOKENS, overlap_tokens |-> OVERLAP_TOKENS]}
    \cup UNION {{[max_tokens |-> b, overlap_tokens |-> o] : o \in 0..(b - 1)} :
                    b \in 1..MaxSmallBudget}

ChunkInit ==
    /\ ck_pc = "idle"
    /\ max_tokens = MAX_TOKENS
    /\ overlap_tokens = OVERLAP_TOKENS
    /\ n_tokens = 0
    /\ start = 0
    /\ chunk_index = 0
    /\ chunks = <<>>

\* the larger of the two, where the code takes the smaller
Larger(a, b) == IF a <= b THEN b ELSE a

Min(a, b) == IF a <= b THEN a ELSE b

\* _create_chunks, line 286: the total_chunks written on every chunk of a split article
TotalChunks(n, budget) == (n + budget - 1) \div budget

\* a chunk numbered from one
ChunkNumberedFromOne(first, last, index, total) ==
    [first |-> first, last |-> last, chunk_index |-> index + 1, total_chunks |-> total]

\* _create_chunk: the fields of a chunk that _create_chunks decides
Chunk(first, last, index, total) ==
    [first |-> first, last |-> last, chunk_index |-> index, total_chunks |-> total]

\* the loop that stops one overlap short of the place the code stops at
LoopContinuesShortOfEnd(next_start, n, overlap) ==
    /\ ~(next_start >= n - 2 * overlap)
    /\ next_start < n

\* the loop without its break, going on while start < len(tokens)
LoopContinuesWithoutBreak(next_start, n, overlap) == next_start < n

\* _create_chunks, lines 280 and 294: the loop goes on after a window
LoopContinues(next_start, n, overlap) ==
    /\ ~(next_start >= n - overlap)
    /\ next_start < n

\* _create_chunks, lines 267-273: an article within the budget is one chunk
CreateSingleChunk ==
    /\ ck_pc = "idle"
    /\ \E cfg \in ChunkConfigs :
         /\ max_tokens' = cfg.max_tokens
         /\ overlap_tokens' = cfg.overlap_tokens
         /\ \E n \in 0..cfg.max_tokens :
              /\ n_tokens' = n
              /\ chunks' = <<Chunk(0, n, 0, 1)>>
    /\ ck_pc' = "done"
    /\ UNCHANGED <<start, chunk_index>>
    /\ UNCHANGED nonChunkVars

\* _create_chunks, lines 275-278: a longer article enters the windowing loop
BeginSplit ==
    /\ ck_pc = "idle"
    /\ \E cfg \in ChunkConfigs :
         /\ max_tokens' = cfg.max_tokens
         /\ overlap_tokens' = cfg.overlap_tokens
         /\ n_tokens' \in (cfg.max_tokens + 1)..(MaxWindows * cfg.max_tokens)
    /\ chunks' = <<>>
    /\ start' = 0
    /\ chunk_index' = 0
    /\ ck_pc' = "loop"
    /\ UNCHANGED nonChunkVars

\* _create_chunks, lines 280-295: one iteration of the windowing loop
ChunkLoopStep ==
    /\ ck_pc = "loop"
    /\ LET end == Min(start + max_tokens, n_tokens)
       IN  /\ chunks' = Append(chunks,
                               Chunk(start, end, chunk_index,
                                     TotalChunks(n_tokens, max_tokens)))
           /\ start' = end - overlap_tokens
           /\ chunk_index' = chunk_index + 1
           /\ ck_pc' = IF LoopContinues(end - overlap_tokens, n_tokens, overlap_tokens)
                       THEN "loop" ELSE "done"
    /\ UNCHANGED <<max_tokens, overlap_tokens, n_tokens>>
    /\ UNCHANGED nonChunkVars

ChunkNext ==
    \/ CreateSingleChunk
    \/ BeginSplit
    \/ ChunkLoopStep

(***************************************************************************)
(* doc_processor.py: _extract_articles.  The text is a sequence of tokens: *)
(* a heading ("<label>." at the start of a line, which both patterns       *)
(* match), a ref ("<label>." inside a line, which the fallback pattern     *)
(* alone matches), a word of prose, or a page marker ("--- PAGE n ---").   *)
(* A token's offset in the text is its index.                              *)
(***************************************************************************)
HeadingToken(label) == [kind |-> "heading", label |-> label, page |-> 0]

RefToken(label) == [kind |-> "ref", label |-> label, page |-> 0]

TextToken == [kind |-> "text", label |-> <<>>, page |-> 0]

PageToken(n) == [kind |-> "page", label |-> <<>>, page |-> n]

\* the labels the documents explored may carry: "1", "2", "2J", "3", "03", "551"
DocLabels == {<<"1">>, <<"2">>, <<"2","J">>, <<"3">>, <<"0","3">>, <<"5","5","1">>}

DocTokens ==
    {HeadingToken(l) : l \in DocLabels} \cup {RefToken(l) : l \in DocLabels}
    \cup {TextToken} \cup {PageToken(n) : n \in {2, 3}}

\* the longest document explored, in tokens
MaxDocTokens == 3

Documents == UNION {[1..n -> DocTokens] : n \in 0..MaxDocTokens}

\* _extract_articles, line 191
MAX_ARTICLE == 550

\* _extract_articles, line 218: the fallback pass runs below this many articles
FALLBACK_BELOW == 500

\* the tolerance of the monotonicity test, 1e-6
EPSILON == Frac(1, 1000000)

FracAdd(a, b) == Frac(a.num * b.den + b.num * a.den, a.den * b.den)

RECURSIVE IntToChars(_)
\* str() of a natural number
IntToChars(n) ==
    IF n < 10 THEN <<DigitChars[n + 1]>>
    ELSE IntToChars(n \div 10) \o <<DigitChars[(n % 10) + 1]>>

\* the label's digits and its suffix letter, <<>> when it has none
LabelDigits(art) ==
    IF art # <<>> /\ IndexOf(UpperLetters, art[Len(art)]) > 0
    THEN SubSeq(art, 1, Len(art) - 1) ELSE art

LabelSuffix(art) ==
    IF art # <<>> /\ IndexOf(UpperLetters, art[Len(art)]) > 0
    THEN <<art[Len(art)]>> ELSE <<>>

\* re.match(r"^(0*)(\d+)([A-Z]?)$", art) succeeds
LabelMatches(art) ==
    /\ LabelDigits(art) # <<>>
    /\ \A k \in 1..Len(LabelDigits(art)) : IsDigit(LabelDigits(art)[k])

\* normalize_article_id, lines 170-176
normalize_article_id(art) ==
    IF ~LabelMatches(art) THEN art
    ELSE IntToChars(DigitsValue(LabelDigits(art))) \o LabelSuffix(art)

\* article_numeric_value, lines 178-189: 26A -> 26.1, 26B -> 26.2
article_numeric_value(art) ==
    LET norm == normalize_article_id(art)
    IN  IF ~LabelMatches(norm) THEN Frac(-1, 1)
        ELSE IF LabelSuffix(norm) = <<>> THEN Frac(DigitsValue(LabelDigits(norm)), 1)
        ELSE Frac(10 * DigitsValue(LabelDigits(norm))
                    + IndexOf(UpperLetters, LabelSuffix(norm)[1]), 10)

\* _extract_articles, lines 138-146: the page markers, ascending by offset
PagePositions(content) ==
    LET marks == {i \in 1..Len(content) : content[i].kind = "page"}
        nth(k) == CHOOSE i \in marks : Cardinality({j \in marks : j <= i}) = k
    IN  [k \in 1..Cardinality(marks) |-> [start |-> nth(k), page |-> content[nth(k)].page]]

RECURSIVE PageSearchStrictlyBefore(_, _, _, _, _)
\* the search for the last marker strictly before idx
PageSearchStrictlyBefore(page_positions, idx, lo, hi, best) ==
    IF lo > hi THEN best
    ELSE IF page_positions[(lo + hi) \div 2].start < idx
    THEN PageSearchStrictlyBefore(page_positions, idx, (lo + hi) \div 2 + 1, hi,
                                  page_positions[(lo + hi) \div 2].page)
    ELSE PageSearchStrictlyBefore(page_positions, idx, lo, (lo + hi) \div 2 - 1, best)

RECURSIVE PageSearch(_, _, _, _, _)
\* page_for_index, lines 161-168: the binary search loop
PageSearch(page_positions, idx, lo, hi, best) ==
    IF lo > hi THEN best
    ELSE LET mid == (lo + hi) \div 2
         IN  IF page_positions[mid].start <= idx
             THEN PageSearch(page_positions, idx, mid + 1, hi, page_positions[mid].page)
             ELSE PageSearch(page_positions, idx, lo, mid - 1, best)

\* page_for_index, lines 155-168
page_for_index(page_positions, idx) ==
    IF page_positions = <<>> THEN 1
    ELSE PageSearch(page_positions, idx, 1, Len(page_positions), page_positions[1].page)

\* _clean_content: the text left of tokens first..last once the page markers are
\* taken out and the white space collapsed
CleanContent(content, first, last) ==
    LET keep == {i \in first..last : content[i].kind # "page"}
        nth(k) == CHOOSE i \in keep : Cardinality({j \in keep : j <= i}) = k
    IN  [k \in 1..Cardinality(keep) |-> content[nth(k)]]

\* the monotonicity test accepting a key equal to the previous one
NotAfterPreviousStrict(val, prev) == FracLT(val, prev)

\* _extract_articles, lines 200 and 226: val <= prev_val + 1e-6
NotAfterPrevious(val, prev) == FracLE(val, FracAdd(prev, EPSILON))

\* _extract_articles, lines 196-215 and 222-250: one candidate of either pass, with
\* the match's label, its offset and the text captured for it
ConsiderCandidate(acc, label, at, cleaned_content, page_positions) ==
    LET art_id == normalize_article_id(label)
        val    == article_numeric_value(art_id)
    IN  IF FracLE(val, Frac(0, 1)) \/ FracLT(Frac(MAX_ARTICLE, 1), val) THEN acc
        ELSE IF NotAfterPrevious(val, acc.prev_val) THEN acc
        ELSE IF cleaned_content = <<>> THEN acc
        ELSE IF art_id \in acc.seen_ids THEN acc
        ELSE [articles |-> Append(acc.articles,
                                  [article  |-> art_id,
                                   content  |-> cleaned_content,
                                   page     |-> page_for_index(page_positions, at),
                                   position |-> Len(acc.articles) + 1]),
              prev_val |-> val,
              seen_ids |-> acc.seen_ids \cup {art_id}]

\* heading_block_re: the end of the block that starts at heading i, which is the
\* token before the next heading or page marker
BlockEnd(content, i) ==
    LET stops == {j \in (i + 1)..Len(content) : content[j].kind \in {"heading", "page"}}
    IN  IF stops = {} THEN Len(content)
        ELSE (CHOOSE j \in stops : \A k \in stops : j <= k) - 1

RECURSIVE PrimaryPass(_, _, _)
\* _extract_articles, lines 195-215: the matches of heading_block_re from token i on
PrimaryPass(content, i, acc) ==
    IF i > Len(content) THEN acc
    ELSE IF content[i].kind # "heading" THEN PrimaryPass(content, i + 1, acc)
    ELSE PrimaryPass(content, i + 1,
                     ConsiderCandidate(acc, content[i].label, i,
                                       CleanContent(content, i + 1, BlockEnd(content, i)),
                                       PagePositions(content)))

\* _extract_articles, lines 229-236: the text of a fallback candidate ends at the
\* next candidate with a larger key
FallbackEnd(content, i) ==
    LET val  == article_numeric_value(normalize_article_id(content[i].label))
        next == {j \in (i + 1)..Len(content) :
                    /\ content[j].kind \in {"heading", "ref"}
                    /\ FracLT(val, article_numeric_value(normalize_article_id(content[j].label)))}
    IN  IF next = {} THEN Len(content)
        ELSE (CHOOSE j \in next : \A k \in next : j <= k) - 1

RECURSIVE FallbackPass(_, _, _)
\* _extract_articles, lines 219-250: the matches of fallback_heading_re from token i on
FallbackPass(content, i, acc) ==
    IF i > Len(content) THEN acc
    ELSE IF content[i].kind \notin {"heading", "ref"} THEN FallbackPass(content, i + 1, acc)
    ELSE FallbackPass(content, i + 1,
                      ConsiderCandidate(acc, content[i].label, i,
                                        CleanContent(content, i + 1, FallbackEnd(content, i)),
                                        PagePositions(content)))

\* _extract_articles, line 253: articles.sort(key=article_numeric_value)
SortByValue(list) ==
    Sorted(list, [k \in 1..Len(list) |-> article_numeric_value(list[k].article)])

SegInit ==
    /\ seg_pc = "idle"
    /\ document = <<>>
    /\ articles = <<>>
    /\ prev_val = Frac(-1, 1)
    /\ seen_ids = {}

\* _extract_articles, lines 138-215: the primary pass over a document
ExtractPrimary ==
    /\ seg_pc = "idle"
    /\ \E content \in Documents :
         LET acc == PrimaryPass(content, 1,
                                [articles |-> <<>>, prev_val |-> Frac(-1, 1), seen_ids |-> {}])
         IN  /\ document' = content
             /\ articles' = acc.articles
             /\ prev_val' = acc.prev_val
             /\ seen_ids' = acc.seen_ids
    /\ seg_pc' = "primary"
    /\ UNCHANGED nonSegVars

\* the fallback pass with its monotonicity filter started afresh
ExtractFallbackFromScratch ==
    /\ seg_pc = "primary"
    /\ LET acc == FallbackPass(document, 1,
                               [articles |-> articles, prev_val |-> Frac(-1, 1),
                                seen_ids |-> seen_ids])
       IN  /\ articles' = SortByValue(acc.articles)
           /\ prev_val' = acc.prev_val
           /\ seen_ids' = acc.seen_ids
    /\ seg_pc' = "done"
    /\ UNCHANGED document
    /\ UNCHANGED nonSegVars

\* _extract_articles, lines 217-255: the fallback pass, the sort and the return
ExtractFallback ==
    /\ seg_pc = "primary"
    /\ LET acc == IF Len(articles) < FALLBACK_BELOW
                  THEN FallbackPass(document, 1,
                                    [articles |-> articles, prev_val |-> prev_val,
                                     seen_ids |-> seen_ids])
                  ELSE [articles |-> articles, prev_val |-> prev_val, seen_ids |-> seen_ids]
       IN  /\ articles' = IF Len(articles) < FALLBACK_BELOW
                          THEN SortByValue(acc.articles) ELSE acc.articles
           /\ prev_val' = acc.prev_val
           /\ seen_ids' = acc.seen_ids
    /\ seg_pc' = "done"
    /\ UNCHANGED document
    /\ UNCHANGED nonSegVars

SegNext ==
    \/ ExtractPrimary
    \/ ExtractFallback

(***************************************************************************)
(* doc_processor.py: page_for_index over the page markers of a text.  An   *)
(* offset is a character index of the text, from 0.                        *)
(***************************************************************************)
\* the most page markers a text explored holds
MaxMarkers == 4

\* the largest offset of a page marker explored
MaxOffset == 5

\* the numbers the markers explored carry
PageNumbers == {1, 2, 3}

\* _extract_articles, lines 138-146: the lists page_positions may be, the markers
\* in the order of their offsets, each with the number it carries
PageMarkerLists ==
    UNION {{l \in [1..n -> [start : 0..MaxOffset, page : PageNumbers]] :
                \A k \in 1..(n - 1) : l[k].start < l[k + 1].start} : n \in 0..MaxMarkers}

PageInit ==
    /\ pg_pc = "idle"
    /\ pg_positions = <<>>
    /\ pg_idx = 0
    /\ pg_page = 0

\* _extract_articles, lines 138-146: the markers of the text are collected
FindPageMarkers ==
    /\ pg_pc = "idle"
    /\ pg_positions' \in PageMarkerLists
    /\ pg_pc' = "marked"
    /\ UNCHANGED <<pg_idx, pg_page>>
    /\ UNCHANGED nonPageVars

\* _extract_articles, lines 213 and 248: page_for_index(m.start()) for a match
PageForIndex ==
    /\ pg_pc = "marked"
    /\ \E idx \in 0..(MaxOffset + 1) :
         /\ pg_idx' = idx
         /\ pg_page' = page_for_index(pg_positions, idx)
    /\ pg_pc' = "done"
    /\ UNCHANGED pg_positions
    /\ UNCHANGED nonPageVars

PageNext ==
    \/ FindPageMarkers
    \/ PageForIndex

(***************************************************************************)
(* vector_store.py: VectorStore.search over the indexed chunks.            *)
(***************************************************************************)
\* the queries explored
Queries ==
    \* "Article 5"
    {<<"A","r","t","i","c","l","e"," ","5">>,
    \* "art. 7 rate"
     <<"a","r","t","."," ","7"," ","r","a","t","e">>,
    \* "article 5a"
     <<"a","r","t","i","c","l","e"," ","5","a">>,
    \* "tax rate"
     <<"t","a","x"," ","r","a","t","e">>,
    \* "Article 9"
     <<"A","r","t","i","c","l","e"," ","9">>,
    \* "particle 5"
     <<"p","a","r","t","i","c","l","e"," ","5">>}

\* a chunk of the collection: its id and the metadata search reads
IndexedChunk(id, doc_code, article_label, index) ==
    [id |-> id, doc_code |-> doc_code, article |-> article_label, chunk_index |-> index]

\* the chunks the collections explored are made of: article 5 of the Commercial
\* Code in two chunks, its article 7, and article 5 of the Civil Code
ChunkPool ==
    {IndexedChunk("code_13_article_5_p1_pos5_chunk_1", "code_13", <<"5">>, 0),
     IndexedChunk("code_13_article_5_p1_pos5_chunk_2", "code_13", <<"5">>, 1),
     IndexedChunk("code_13_article_7_p2_pos7_chunk_1", "code_13", <<"7">>, 0),
     IndexedChunk("code_16_article_5_p1_pos5_chunk_1", "code_16", <<"5">>, 0)}

\* the largest collection explored, in chunks
MaxIndexed == 3

\* the largest n_results explored
MaxResults == 2

\* the collections: chunks with distinct ids, in the order they were added
Collections ==
    UNION {{c \in [1..n -> ChunkPool] : \A i, j \in 1..n : i # j => c[i] # c[j]}
              : n \in 0..MaxIndexed}

\* the filters a caller may pass: none, or one document code
SearchFilters == {"none", "code_13", "code_16"}

\* the distances the collection may report: scores 1, 1/2 and 1/3
Distances == {Frac(0, 1), Frac(1, 1), Frac(2, 1)}

\* search, line 126: at most this many nearest chunks are asked for
QUERY_CAP == 50

\* \b between positions e and e + 1 of s
WordBoundaryAfter(s, e) ==
    LET IsWordChar(c) ==
            \/ IndexOf(LowerLetters, c) > 0
            \/ IndexOf(UpperLetters, c) > 0
            \/ IsDigit(c)
            \/ c = "_"
        before == e >= 1 /\ IsWordChar(s[e])
        after  == e < Len(s) /\ IsWordChar(s[e + 1])
    IN  before # after

\* the index of the first character at or after p that is not white space
SkipSpaces(s, p) ==
    LET stops == {j \in p..Len(s) : ~IsSpace(s[j])}
    IN  IF stops = {} THEN Len(s) + 1 ELSE CHOOSE j \in stops : \A k \in stops : j <= k

\* \s*(\d+[A-Z]?)\b tried from position p: the group, <<>> when it fails
ArticleNumberAt(s, p) ==
    LET d == SkipSpaces(s, p)
    IN  IF d > Len(s) \/ ~IsDigit(s[d]) THEN <<>>
        ELSE LET e == DigitRunEnd(s, d)
                 f == IF e < Len(s) /\ IndexOf(UpperLetters, s[e + 1]) > 0 THEN e + 1 ELSE e
             IN  IF WordBoundaryAfter(s, f) THEN SubSeq(s, d, f) ELSE <<>>

\* \b(?:article|art\.?)\s*(\d+[A-Z]?)\b tried at position i: the group, <<>> when
\* it fails
ArticleMatchAt(s, i) ==
    LET WORD_ARTICLE == <<"a","r","t","i","c","l","e">>
        WORD_ART == <<"a","r","t">>
        HasWord(w) == i + Len(w) - 1 <= Len(s) /\ SubSeq(s, i, i + Len(w) - 1) = w
        long  == IF HasWord(WORD_ARTICLE) THEN ArticleNumberAt(s, i + Len(WORD_ARTICLE))
                 ELSE <<>>
        q     == i + Len(WORD_ART)
        dot   == IF HasWord(WORD_ART) /\ q <= Len(s) /\ s[q] = "."
                 THEN ArticleNumberAt(s, q + 1) ELSE <<>>
        short == IF HasWord(WORD_ART) THEN ArticleNumberAt(s, q) ELSE <<>>
    IN  IF ~WordBoundaryAfter(s, i - 1) THEN <<>>
        ELSE IF long # <<>> THEN long
        ELSE IF dot # <<>> THEN dot
        ELSE short

\* _process_results, lines 200-205: re.search over query.lower() and the group in
\* upper case, <<>> when the query names no article
ArticleLookup(query_text) ==
    LET s    == Lower(query_text)
        hits == {i \in 1..Len(s) : ArticleMatchAt(s, i) # <<>>}
    IN  IF hits = {} THEN <<>>
        ELSE Upper(ArticleMatchAt(s, CHOOSE i \in hits : \A k \in hits : i <= k))

\* a candidate: a chunk with its score
Candidate(chunk, score) ==
    [id |-> chunk.id, doc_code |-> chunk.doc_code, article |-> chunk.article,
     chunk_index |-> chunk.chunk_index, score |-> score]

RECURSIVE SelectArticle(_, _)
\* collection.get(where={"article": article_num}), in the order of the collection
SelectArticle(coll, article_num) ==
    IF coll = <<>> THEN <<>>
    ELSE (IF Head(coll).article = article_num
          THEN <<Candidate(Head(coll), Frac(1, 1))>> ELSE <<>>)
         \o SelectArticle(Tail(coll), article_num)

\* get_article with no doc_code, lines 164-188
get_article(coll, article_num) ==
    LET formatted == SelectArticle(coll, article_num)
    IN  Sorted(formatted, [k \in 1..Len(formatted) |-> Frac(formatted[k].chunk_index, 1)])

RECURSIVE DeduplicateFrom(_, _)
\* _deduplicate_results, lines 260-269: article_map after the candidates of list,
\* started from the values in kept
DeduplicateFrom(kept, list) ==
    IF list = <<>> THEN kept
    ELSE LET c    == Head(list)
             same == {m \in 1..Len(kept) :
                         kept[m].doc_code = c.doc_code /\ kept[m].article = c.article}
             k    == IF same = {} THEN 0 ELSE CHOOSE m \in same : TRUE
         IN  IF k = 0 THEN DeduplicateFrom(Append(kept, c), Tail(list))
             ELSE IF FracLT(kept[k].score, c.score)
             THEN DeduplicateFrom([kept EXCEPT ![k] = c], Tail(list))
             ELSE DeduplicateFrom(kept, Tail(list))

\* _deduplicate_results, lines 253-269
_deduplicate_results(list) == DeduplicateFrom(<<>>, list)

\* the first n items of list
FirstN(list, n) == SubSeq(list, 1, Min(n, Len(list)))

\* _process_results, lines 190-232: nearest are the chunks the collection returned
\* and distances their distances
_process_results(coll, nearest, distances, query_text, n) ==
    LET article_num == ArticleLookup(query_text)
        found       == IF article_num = <<>> THEN <<>> ELSE get_article(coll, article_num)
        processed   == [k \in 1..Len(nearest) |->
                          Candidate(nearest[k],
                                    Frac(distances[k].den, distances[k].den + distances[k].num))]
        \* line 227: sort(key=score, reverse=True)
        by_score    == Sorted(processed,
                              [k \in 1..Len(processed) |->
                                  Frac(-processed[k].score.num, processed[k].score.den)])
    IN  IF nearest = <<>> THEN <<>>
        ELSE IF found # <<>> THEN FirstN(found, n)
        ELSE FirstN(_deduplicate_results(by_score), n)

\* collection.query, lines 124-129: the answers the collection may give, which are
\* at most `limit` chunks that pass the filter, nearest first
NearestAnswers(coll, filter, limit) ==
    LET pool == {coll[k] : k \in {k \in 1..Len(coll) :
                                      filter = "none" \/ coll[k].doc_code = filter}}
        size == Min(limit, Cardinality(pool))
    IN  {r \in [1..size -> pool \X Distances] :
            /\ \A i, j \in 1..size : i # j => r[i][1] # r[j][1]
            /\ \A i \in 1..(size - 1) : FracLE(r[i][2], r[i + 1][2])}

StoreInit ==
    /\ st_pc = "empty"
    /\ collection = <<>>
    /\ query = <<>>
    /\ n_results = 0
    /\ results = <<>>

\* _load_documents, lines 68-106: the chunks are added to the collection
LoadDocuments ==
    /\ st_pc = "empty"
    /\ collection' \in Collections
    /\ st_pc' = "loaded"
    /\ UNCHANGED <<query, n_results, results>>
    /\ UNCHANGED nonStoreVars

\* search, lines 112-135.  A search leaves the collection as it is and reads nothing
\* of the search before it, so one search per collection reaches every result.
Search ==
    /\ st_pc = "loaded"
    /\ \E query_text \in Queries, n \in 1..MaxResults, filter \in SearchFilters :
         \E r \in NearestAnswers(collection, filter, Min(n * 2, QUERY_CAP)) :
            /\ query' = query_text
            /\ n_results' = n
            /\ results' = _process_results(collection,
                                           [k \in 1..Len(r) |-> r[k][1]],
                                           [k \in 1..Len(r) |-> r[k][2]],
                                           query_text, n)
    /\ st_pc' = "returned"
    /\ UNCHANGED collection
    /\ UNCHANGED nonStoreVars

StoreNext ==
    \/ LoadDocuments
    \/ Search

(***************************************************************************)
(* doc_processor.py and process_all_documents.py: a batch of source files  *)
(* turned into chunks.  A file is the stem of its name and its text, the   *)
(* text being the tokens that _preclean_document_text leaves.              *)
(***************************************************************************)
\* DEFAULT_CITATION_PREFIX = "Commercial Code (Cap. 13)"
DEFAULT_CITATION_PREFIX ==
    <<"C","o","m","m","e","r","c","i","a","l"," ","C","o","d","e"," ","(","C","a","p","."," ",
      "1","3",")">>

\* LABEL_ART = "Art."
LABEL_ART ==
    <<"A","r","t",".">>

\* LABEL_REG = "Reg."
LABEL_REG ==
    <<"R","e","g",".">>

\* ID_LABEL_ARTICLE = "article"
ID_LABEL_ARTICLE ==
    <<"a","r","t","i","c","l","e">>

\* ID_LABEL_REGULATION = "regulation"
ID_LABEL_REGULATION ==
    <<"r","e","g","u","l","a","t","i","o","n">>

\* DEFAULT_DOC_CODE = "code_13"
DEFAULT_DOC_CODE ==
    <<"c","o","d","e","_","1","3">>

\* WORD_SUBSIDIARY = "SUBSIDIARY"
WORD_SUBSIDIARY ==
    <<"S","U","B","S","I","D","I","A","R","Y">>

\* WORD_LEGISLATION = "LEGISLATION"
WORD_LEGISLATION ==
    <<"L","E","G","I","S","L","A","T","I","O","N">>

\* _infer_document_info, lines 343-362: doc_mapping, in the order of the dictionary
doc_mapping ==
    <<
      \* "12": ("Code of Organization and Civil Procedure (Cap. 12)", "code_12")
      [chap  |-> <<"1","2">>,
       title |-> <<"C","o","d","e"," ","o","f"," ","O","r","g","a","n","i","z","a","t","i","o",
                   "n"," ","a","n","d"," ","C","i","v","i","l"," ","P","r","o","c","e","d","u",
                   "r","e"," ","(","C","a","p","."," ","1","2",")">>,
       code  |-> <<"c","o","d","e","_","1","2">>],
      \* "13": ("Commercial Code (Cap. 13)", "code_13")
      [chap  |-> <<"1","3">>,
       title |-> <<"C","o","m","m","e","r","c","i","a","l"," ","C","o","d","e"," ","(","C","a",
                   "p","."," ","1","3",")">>,
       code  |-> <<"c","o","d","e","_","1","3">>],
      \* "16": ("Civil Code (Cap. 16)", "code_16")
      [chap  |-> <<"1","6">>,
       title |-> <<"C","i","v","i","l"," ","C","o","d","e"," ","(","C","a","p","."," ","1","6",
                   ")">>,
       code  |-> <<"c","o","d","e","_","1","6">>],
      \* "55": ("Notarial Profession and Notarial Archives Act (Cap. 55)", "notarial_act")
      [chap  |-> <<"5","5">>,
       title |-> <<"N","o","t","a","r","i","a","l"," ","P","r","o","f","e","s","s","i","o","n",
                   " ","a","n","d"," ","N","o","t","a","r","i","a","l"," ","A","r","c","h","i",
                   "v","e","s"," ","A","c","t"," ","(","C","a","p","."," ","5","5",")">>,
       code  |-> <<"n","o","t","a","r","i","a","l","_","a","c","t">>],
      \* "56": ("Public Registry Act (Cap. 56)", "public_registry")
      [chap  |-> <<"5","6">>,
       title |-> <<"P","u","b","l","i","c"," ","R","e","g","i","s","t","r","y"," ","A","c","t",
                   " ","(","C","a","p","."," ","5","6",")">>,
       code  |-> <<"p","u","b","l","i","c","_","r","e","g","i","s","t","r","y">>],
      \* "79": ("Commissioners for Oaths Ordinance (Cap. 79)", "commissioners_oaths")
      [chap  |-> <<"7","9">>,
       title |-> <<"C","o","m","m","i","s","s","i","o","n","e","r","s"," ","f","o","r"," ","O",
                   "a","t","h","s"," ","O","r","d","i","n","a","n","c","e"," ","(","C","a","p",
                   "."," ","7","9",")">>,
       code  |-> <<"c","o","m","m","i","s","s","i","o","n","e","r","s","_","o","a","t","h","s">>],
      \* "123": ("Income Tax Act (Cap. 123)", "income_tax_act")
      [chap  |-> <<"1","2","3">>,
       title |-> <<"I","n","c","o","m","e"," ","T","a","x"," ","A","c","t"," ","(","C","a","p",
                   "."," ","1","2","3",")">>,
       code  |-> <<"i","n","c","o","m","e","_","t","a","x","_","a","c","t">>],
      \* "246": ("AIP Act (Cap. 246)", "aip_act")
      [chap  |-> <<"2","4","6">>,
       title |-> <<"A","I","P"," ","A","c","t"," ","(","C","a","p","."," ","2","4","6",")">>,
       code  |-> <<"a","i","p","_","a","c","t">>],
      \* "296": ("Land Registration Act (Cap. 296)", "land_registration")
      [chap  |-> <<"2","9","6">>,
       title |-> <<"L","a","n","d"," ","R","e","g","i","s","t","r","a","t","i","o","n"," ","A",
                   "c","t"," ","(","C","a","p","."," ","2","9","6",")">>,
       code  |-> <<"l","a","n","d","_","r","e","g","i","s","t","r","a","t","i","o","n">>],
      \* "364": ("Duty on Documents and Transfers Act (Cap. 364)", "duty_act")
      [chap  |-> <<"3","6","4">>,
       title |-> <<"D","u","t","y"," ","o","n"," ","D","o","c","u","m","e","n","t","s"," ","a",
                   "n","d"," ","T","r","a","n","s","f","e","r","s"," ","A","c","t"," ","(","C",
                   "a","p","."," ","3","6","4",")">>,
       code  |-> <<"d","u","t","y","_","a","c","t">>],
      \* "372": ("Income Tax Management Act (Cap. 372)", "income_tax_mgmt")
      [chap  |-> <<"3","7","2">>,
       title |-> <<"I","n","c","o","m","e"," ","T","a","x"," ","M","a","n","a","g","e","m","e",
                   "n","t"," ","A","c","t"," ","(","C","a","p","."," ","3","7","2",")">>,
       code  |-> <<"i","n","c","o","m","e","_","t","a","x","_","m","g","m","t">>],
      \* "373": ("Prevention of Money Laundering Act (Cap. 373)", "money_laundering")
      [chap  |-> <<"3","7","3">>,
       title |-> <<"P","r","e","v","e","n","t","i","o","n"," ","o","f"," ","M","o","n","e","y",
                   " ","L","a","u","n","d","e","r","i","n","g"," ","A","c","t"," ","(","C","a",
                   "p","."," ","3","7","3",")">>,
       code  |-> <<"m","o","n","e","y","_","l","a","u","n","d","e","r","i","n","g">>],
      \* "398": ("Condominium Act (Cap. 398)", "condominium_act")
      [chap  |-> <<"3","9","8">>,
       title |-> <<"C","o","n","d","o","m","i","n","i","u","m"," ","A","c","t"," ","(","C","a",
                   "p","."," ","3","9","8",")">>,
       code  |-> <<"c","o","n","d","o","m","i","n","i","u","m","_","a","c","t">>],
      \* "540": ("Gender Identity, Gender Expression and Sex Characteristics Act (Cap. 540)", "gender_identity")
      [chap  |-> <<"5","4","0">>,
       title |-> <<"G","e","n","d","e","r"," ","I","d","e","n","t","i","t","y",","," ","G","e",
                   "n","d","e","r"," ","E","x","p","r","e","s","s","i","o","n"," ","a","n","d",
                   " ","S","e","x"," ","C","h","a","r","a","c","t","e","r","i","s","t","i","c",
                   "s"," ","A","c","t"," ","(","C","a","p","."," ","5","4","0",")">>,
       code  |-> <<"g","e","n","d","e","r","_","i","d","e","n","t","i","t","y">>],
      \* "604": ("Private Residential Leases Act (Cap. 604)", "residential_leases")
      [chap  |-> <<"6","0","4">>,
       title |-> <<"P","r","i","v","a","t","e"," ","R","e","s","i","d","e","n","t","i","a","l",
                   " ","L","e","a","s","e","s"," ","A","c","t"," ","(","C","a","p","."," ","6",
                   "0","4",")">>,
       code  |-> <<"r","e","s","i","d","e","n","t","i","a","l","_","l","e","a","s","e","s">>],
      \* "614": ("Cohabitation Act (Cap. 614)", "cohabitation_act")
      [chap  |-> <<"6","1","4">>,
       title |-> <<"C","o","h","a","b","i","t","a","t","i","o","n"," ","A","c","t"," ","(","C",
                   "a","p","."," ","6","1","4",")">>,
       code  |-> <<"c","o","h","a","b","i","t","a","t","i","o","n","_","a","c","t">>],
      \* "615": ("Real Estate Agents, Property Brokers and Property Consultants Act (Cap. 615)", "real_estate_agents")
      [chap  |-> <<"6","1","5">>,
       title |-> <<"R","e","a","l"," ","E","s","t","a","t","e"," ","A","g","e","n","t","s",",",
                   " ","P","r","o","p","e","r","t","y"," ","B","r","o","k","e","r","s"," ","a",
                   "n","d"," ","P","r","o","p","e","r","t","y"," ","C","o","n","s","u","l","t",
                   "a","n","t","s"," ","A","c","t"," ","(","C","a","p","."," ","6","1","5",")">>,
       code  |-> <<"r","e","a","l","_","e","s","t","a","t","e","_","a","g","e","n","t","s">>],
      \* "623.01": ("EPC Regulations (S.L. 623.01)", "epc_regulations")
      [chap  |-> <<"6","2","3",".","0","1">>,
       title |-> <<"E","P","C"," ","R","e","g","u","l","a","t","i","o","n","s"," ","(","S",".",
                   "L","."," ","6","2","3",".","0","1",")">>,
       code  |-> <<"e","p","c","_","r","e","g","u","l","a","t","i","o","n","s">>] >>

\* _infer_document_info, line 337: group 1 of ^(\d+(?:\.\d+)?)\s*[-\.]?\s*(.+) on the
\* stem, <<>> when the pattern fails.  The digits are taken greedily and given back
\* one at a time while nothing is left for the last group.
ChapterNumber(stem) ==
    IF stem = <<>> \/ ~IsDigit(stem[1]) THEN <<>>
    ELSE LET a       == DigitRunEnd(stem, 1)
             hasFrac == a + 2 <= Len(stem) /\ stem[a + 1] = "." /\ IsDigit(stem[a + 2])
             b       == IF hasFrac THEN DigitRunEnd(stem, a + 2) ELSE a
         IN  IF hasFrac
             THEN IF b < Len(stem) THEN SubSeq(stem, 1, b)
                  ELSE IF b - 1 >= a + 2 THEN SubSeq(stem, 1, b - 1)
                  ELSE SubSeq(stem, 1, a)
             ELSE IF a < Len(stem) THEN SubSeq(stem, 1, a)
             ELSE IF a >= 2 THEN SubSeq(stem, 1, a - 1)
             ELSE <<>>

\* _infer_document_info, lines 365-367: the first entry of doc_mapping the chapter
\* number matches, 0 when none does
MappingIndex(chapter_num) ==
    LET StartsWith(s, prefix) ==
            Len(prefix) <= Len(s) /\ SubSeq(s, 1, Len(prefix)) = prefix
        AllDigits(s) == s # <<>> /\ \A j \in 1..Len(s) : IsDigit(s[j])
        hits == {k \in 1..Len(doc_mapping) :
                    \/ chapter_num = doc_mapping[k].chap
                    \/ /\ StartsWith(chapter_num, doc_mapping[k].chap \o <<".">>)
                       /\ AllDigits(doc_mapping[k].chap)}
    IN  IF chapter_num = <<>> \/ hits = {} THEN 0
        ELSE CHOOSE k \in hits : \A m \in hits : k <= m

\* SUBSIDIARY\s+LEGISLATION\s+(\d+)\s+(\d+) tried at position i of s: the two
\* groups, <<>> when it fails
SubsidiaryMatchAt(s, i) ==
    LET p  == i + Len(WORD_SUBSIDIARY)
        q  == SkipSpaces(s, p)
        r  == q + Len(WORD_LEGISLATION)
        d1 == SkipSpaces(s, r)
        e1 == DigitRunEnd(s, d1)
        d2 == SkipSpaces(s, e1 + 1)
        e2 == DigitRunEnd(s, d2)
    IN  IF /\ p - 1 <= Len(s) /\ SubSeq(s, i, p - 1) = WORD_SUBSIDIARY
           /\ q > p
           /\ r - 1 <= Len(s) /\ SubSeq(s, q, r - 1) = WORD_LEGISLATION
           /\ d1 > r /\ d1 <= Len(s) /\ IsDigit(s[d1])
           /\ d2 > e1 + 1 /\ d2 <= Len(s) /\ IsDigit(s[d2])
        THEN <<SubSeq(s, d1, e1), SubSeq(s, d2, e2)>>
        ELSE <<>>

\* _infer_document_info, line 397: re.search over stem_upper
SubsidiarySearch(s) ==
    LET hits == {i \in 1..Len(s) : SubsidiaryMatchAt(s, i) # <<>>}
    IN  IF hits = {} THEN <<>>
        ELSE SubsidiaryMatchAt(s, CHOOSE i \in hits : \A k \in hits : i <= k)

\* f"{n:02d}"
TwoDigits(n) == IF n < 10 THEN <<"0">> \o IntToChars(n) ELSE IntToChars(n)

DocumentInfo(prefix, label, id, code) ==
    [citation_prefix |-> prefix, citation_label |-> label, id_label |-> id, doc_code |-> code]

\* the fields of the previous document kept for a name that starts with a digit, those
\* of a regulation of the Commercial Code set for any other
InferKeepingPreviousFields(stem) ==
    IF stem # <<>> /\ IsDigit(stem[1]) THEN processor
    ELSE DocumentInfo(DEFAULT_CITATION_PREFIX, LABEL_REG, ID_LABEL_REGULATION, DEFAULT_DOC_CODE)

\* _infer_document_info, lines 325-416: the fields it sets for a file of this stem.
\* doc_overview, a text looked up from doc_code, is not among them.
_infer_document_info(stem) ==
    LET stem_upper  == Upper(stem)
        chapter_num == ChapterNumber(stem)
        k           == MappingIndex(chapter_num)
        regulation  == \E j \in 1..Len(chapter_num) : chapter_num[j] = "."
        sl          == SubsidiarySearch(stem_upper)
    IN  IF k > 0
        THEN DocumentInfo(doc_mapping[k].title,
                          IF regulation THEN LABEL_REG ELSE LABEL_ART,
                          IF regulation THEN ID_LABEL_REGULATION ELSE ID_LABEL_ARTICLE,
                          doc_mapping[k].code)
        ELSE IF \/ Contains(stem_upper, <<"E","U">>)
                \/ Contains(stem, <<"6","5","0",".","2","0","1","2">>)
        \* "EU Succession Regulation (650/2012)", "eu_succession"
        THEN DocumentInfo(<<"E","U"," ","S","u","c","c","e","s","s","i","o","n"," ","R","e","g",
                            "u","l","a","t","i","o","n"," ","(","6","5","0","/","2","0","1",
                            "2",")">>,
                          LABEL_ART, ID_LABEL_ARTICLE,
                          <<"e","u","_","s","u","c","c","e","s","s","i","o","n">>)
        ELSE IF Contains(stem_upper, <<"C","O","M","P","A","N","I","E","S"," ","A","C","T">>)
        \* "Companies Act (Cap. 386)", "companies_act"
        THEN DocumentInfo(<<"C","o","m","p","a","n","i","e","s"," ","A","c","t"," ","(","C","a",
                            "p","."," ","3","8","6",")">>,
                          LABEL_ART, ID_LABEL_ARTICLE,
                          <<"c","o","m","p","a","n","i","e","s","_","a","c","t">>)
        ELSE IF sl # <<>>
        \* f"S.L. {cap}.{sub:02d}", f"sl_{cap}_{sub:02d}"
        THEN DocumentInfo(<<"S",".","L","."," ">> \o IntToChars(DigitsValue(sl[1])) \o <<".">>
                             \o TwoDigits(DigitsValue(sl[2])),
                          LABEL_REG, ID_LABEL_REGULATION,
                          <<"s","l","_">> \o IntToChars(DigitsValue(sl[1])) \o <<"_">>
                             \o TwoDigits(DigitsValue(sl[2])))
        ELSE DocumentInfo(DEFAULT_CITATION_PREFIX, LABEL_ART, ID_LABEL_ARTICLE,
                          DEFAULT_DOC_CODE)

\* _extract_articles, lines 133-255, as one function of the text
_extract_articles(content) ==
    LET first == PrimaryPass(content, 1,
                             [articles |-> <<>>, prev_val |-> Frac(-1, 1), seen_ids |-> {}])
    IN  IF Len(first.articles) < FALLBACK_BELOW
        THEN SortByValue(FallbackPass(content, 1, first).articles)
        ELSE first.articles

RECURSIVE ChunkWindows(_, _, _, _, _)
\* _create_chunks, lines 280-295: the windows of the loop from one start on
ChunkWindows(from, index, n, budget, overlap) ==
    LET end  == Min(from + budget, n)
        this == Chunk(from, end, index, TotalChunks(n, budget))
    IN  IF LoopContinues(end - overlap, n, overlap)
        THEN <<this>> \o ChunkWindows(end - overlap, index + 1, n, budget, overlap)
        ELSE <<this>>

\* _create_chunk, lines 302-305
ChunkId(info, article, index) ==
    info.doc_code \o <<"_">> \o info.id_label \o <<"_">> \o article.article
        \o <<"_","p">> \o IntToChars(article.page)
        \o <<"_","p","o","s">> \o IntToChars(article.position)
        \o <<"_","c","h","u","n","k","_">> \o IntToChars(index + 1)

\* _create_chunk, lines 299-323: the chunk of one window of an article.  The words
\* of the text stand for its tokens.
_create_chunk(info, article, window) ==
    [id           |-> ChunkId(info, article, window.chunk_index),
     content      |-> SubSeq(article.content, window.first + 1, window.last),
     article      |-> article.article,
     page         |-> article.page,
     position     |-> article.position,
     chunk_index  |-> window.chunk_index,
     total_chunks |-> window.total_chunks,
     citation     |-> info.citation_prefix \o <<" ">> \o info.citation_label
                         \o <<" ">> \o article.article,
     document     |-> info.citation_prefix,
     id_label     |-> info.id_label,
     doc_code     |-> info.doc_code]

\* _create_chunks, lines 265-297
_create_chunks(info, article, budget, overlap) ==
    LET n       == Len(article.content)
        windows == IF n <= budget THEN <<Chunk(0, n, 0, 1)>>
                   ELSE ChunkWindows(0, 0, n, budget, overlap)
    IN  [k \in 1..Len(windows) |-> _create_chunk(info, article, windows[k])]

RECURSIVE ChunksOfArticles(_, _, _, _)
\* process_document, lines 68-71
ChunksOfArticles(info, list, budget, overlap) ==
    IF list = <<>> THEN <<>>
    ELSE _create_chunks(info, Head(list), budget, overlap)
         \o ChunksOfArticles(info, Tail(list), budget, overlap)

RECURSIVE RemoveDuplicatesFrom(_, _)
\* main, lines 69-73: the first chunk of every id, in order
RemoveDuplicatesFrom(kept, list) ==
    IF list = <<>> THEN kept
    ELSE IF \E k \in 1..Len(kept) : kept[k].id = Head(list).id
    THEN RemoveDuplicatesFrom(kept, Tail(list))
    ELSE RemoveDuplicatesFrom(Append(kept, Head(list)), Tail(list))

\* the names a batch may hold, in the order sorted() gives them
FileStems ==
    \* "123 - Income Tax Act"
    <<<<"1","2","3"," ","-"," ","I","n","c","o","m","e"," ","T","a","x"," ","A","c","t">>,
    \* "123.27 - Tax Rules"
      <<"1","2","3",".","2","7"," ","-"," ","T","a","x"," ","R","u","l","e","s">>,
    \* "123.28 - Tax Credits"
      <<"1","2","3",".","2","8"," ","-"," ","T","a","x"," ","C","r","e","d","i","t","s">>,
    \* "Companies Act"
      <<"C","o","m","p","a","n","i","e","s"," ","A","c","t">>,
    \* "EU 650.2012"
      <<"E","U"," ","6","5","0",".","2","0","1","2">>,
    \* "SUBSIDIARY LEGISLATION 386 02"
      <<"S","U","B","S","I","D","I","A","R","Y"," ","L","E","G","I","S","L","A","T","I","O","N",
        " ","3","8","6"," ","0","2">>,
    \* "memo"
      <<"m","e","m","o">>,
    \* "notes"
      <<"n","o","t","e","s">>>>

\* the texts a file may hold: one article, one article of two words, two articles,
\* one article on page 2
FileContents ==
    {<<HeadingToken(<<"1">>), TextToken>>,
     <<HeadingToken(<<"1">>), TextToken, TextToken>>,
     <<HeadingToken(<<"1">>), RefToken(<<"2">>), TextToken>>,
     <<PageToken(2), HeadingToken(<<"2">>), TextToken>>}

\* the most files in a batch
MaxFiles == 2

\* the batches: files of distinct names, sorted by name
Batches ==
    UNION {{[k \in 1..n |-> [stem |-> FileStems[b[k][1]], content |-> b[k][2]]] :
               b \in {c \in [1..n -> (1..Len(FileStems)) \X FileContents] :
                         \A k \in 1..(n - 1) : c[k][1] < c[k + 1][1]}}
              : n \in 0..MaxFiles}

IngestInit ==
    /\ ing_pc = "idle"
    /\ files = <<>>
    /\ file_idx = 0
    /\ processor = DocumentInfo(DEFAULT_CITATION_PREFIX, LABEL_ART, ID_LABEL_ARTICLE,
                                DEFAULT_DOC_CODE)
    /\ processed_chunks = <<>>
    /\ all_chunks = <<>>
    /\ emitted = <<>>
    /\ reprocessed = <<>>

\* main, lines 39-41: the files of ocr/output, sorted
ListFiles ==
    /\ ing_pc = "idle"
    /\ files' \in Batches
    /\ file_idx' = 1
    /\ ing_pc' = "processing"
    /\ UNCHANGED <<processor, processed_chunks, all_chunks, emitted, reprocessed>>
    /\ UNCHANGED nonIngestVars

\* main, lines 43-59, with process_document, lines 49-93: one file of the batch
ProcessDocument ==
    /\ ing_pc = "processing"
    /\ file_idx <= Len(files)
    /\ LET info == _infer_document_info(files[file_idx].stem)
           made == ChunksOfArticles(info, _extract_articles(files[file_idx].content),
                                    MAX_TOKENS, OVERLAP_TOKENS)
       IN  /\ processor' = info
           /\ processed_chunks' = made
           /\ all_chunks' = all_chunks \o made
           /\ emitted' = emitted \o [k \in 1..Len(made) |-> [file |-> file_idx, chunk |-> made[k]]]
    /\ file_idx' = file_idx + 1
    /\ UNCHANGED <<ing_pc, files, reprocessed>>
    /\ UNCHANGED nonIngestVars

\* process_document, lines 49-93, called once more on a file of the batch, with the
\* same DocumentProcessor, after the loop of main went over the batch
ReprocessDocument ==
    /\ ing_pc = "processing"
    /\ file_idx > Len(files)
    /\ reprocessed = <<>>
    /\ \E f \in 1..Len(files) :
         LET info == _infer_document_info(files[f].stem)
             made == ChunksOfArticles(info, _extract_articles(files[f].content),
                                      MAX_TOKENS, OVERLAP_TOKENS)
         IN  /\ processor' = info
             /\ processed_chunks' = made
             /\ reprocessed' = <<[file |-> f, chunks |-> made]>>
    /\ UNCHANGED <<ing_pc, files, file_idx, all_chunks, emitted>>
    /\ UNCHANGED nonIngestVars

\* main, lines 68-78: the duplicates by id are removed and the chunks saved
RemoveDuplicates ==
    /\ ing_pc = "processing"
    /\ file_idx > Len(files)
    /\ all_chunks' = RemoveDuplicatesFrom(<<>>, all_chunks)
    /\ processed_chunks' = RemoveDuplicatesFrom(<<>>, all_chunks)
    /\ ing_pc' = "saved"
    /\ UNCHANGED <<files, file_idx, processor, emitted, reprocessed>>
    /\ UNCHANGED nonIngestVars

IngestNext ==
    \/ ListFiles
    \/ ProcessDocument
    \/ ReprocessDocument
    \/ RemoveDuplicates

(***************************************************************************)
(* search_engine.py: SearchEngine over the vector store.                   *)
(***************************************************************************)
\* the queries the engine is asked
EngineQueries ==
    \* "article 5 commercial code"
    {<<"a","r","t","i","c","l","e"," ","5"," ","c","o","m","m","e","r","c","i","a","l"," ","c","o","d","e">>,
    \* "Article. 5 commercial code"
     <<"A","r","t","i","c","l","e","."," ","5"," ","c","o","m","m","e","r","c","i","a","l"," ","c","o","d","e">>,
    \* "article 5 director"
     <<"a","r","t","i","c","l","e"," ","5"," ","d","i","r","e","c","t","o","r">>,
    \* "dividend tax"
     <<"d","i","v","i","d","e","n","d"," ","t","a","x">>,
    \* "article 7"
     <<"a","r","t","i","c","l","e"," ","7">>,
    \* "5 of the commercial code"
     <<"5"," ","o","f"," ","t","h","e"," ","c","o","m","m","e","r","c","i","a","l"," ","c","o","d","e">>,
    \* "7"
     <<"7">>,
    \* "penalty cap 13"
     <<"p","e","n","a","l","t","y"," ","c","a","p"," ","1","3">>,
    \* "s.l. article 5"
     <<"s",".","l","."," ","a","r","t","i","c","l","e"," ","5">>,
    \* " companies act article 5 "
     <<" ","c","o","m","p","a","n","i","e","s"," ","a","c","t"," ","a","r","t","i","c","l","e"," ","5"," ">>,
    \* "Article 5A"
     <<"A","r","t","i","c","l","e"," ","5","A">>}

\* \b(\d+[A-Z]?)\s*(?:of|from|in)\s*(?:the\s*)?(?:commercial\s*)?code\b tried at
\* position i: the group, <<>> when it fails
OfCodeMatchAt(s, i) ==
    LET HasAt(w, p) == p + Len(w) - 1 <= Len(s) /\ SubSeq(s, p, p + Len(w) - 1) = w
        CodeAt(g) == HasAt(<<"c","o","d","e">>, g) /\ WordBoundaryAfter(s, g + 3)
        AfterThe(d) ==
            CodeAt(IF HasAt(<<"c","o","m","m","e","r","c","i","a","l">>, d)
                   THEN SkipSpaces(s, d + 10) ELSE d)
        AfterWord(c) ==
            AfterThe(IF HasAt(<<"t","h","e">>, c) THEN SkipSpaces(s, c + 3) ELSE c)
        WordAt(a) ==
            IF HasAt(<<"o","f">>, a) THEN AfterWord(SkipSpaces(s, a + 2))
            ELSE IF HasAt(<<"f","r","o","m">>, a) THEN AfterWord(SkipSpaces(s, a + 4))
            ELSE IF HasAt(<<"i","n">>, a) THEN AfterWord(SkipSpaces(s, a + 2))
            ELSE FALSE
        Group(f) == IF WordAt(SkipSpaces(s, f + 1)) THEN SubSeq(s, i, f) ELSE <<>>
        NumberEnd(e) ==
            Group(IF e < Len(s) /\ IndexOf(UpperLetters, s[e + 1]) > 0 THEN e + 1 ELSE e)
    IN  IF IsDigit(s[i]) /\ WordBoundaryAfter(s, i - 1)
        THEN NumberEnd(DigitRunEnd(s, i)) ELSE <<>>

\* _analyze_query, lines 99-110: the three article patterns tried in order over the
\* query in lower case; the group in upper case, <<>> when none matches
ArticleReference(query_text) ==
    LET s == Lower(query_text)
        FirstHit(hits) ==
            IF hits = {} THEN <<>>
            ELSE OfCodeMatchAt(s, CHOOSE i \in hits : \A k \in hits : i <= k)
        \* ^(\d+[A-Z]?)$
        Whole(e) ==
            IF e >= 1 /\ (e = Len(s) \/ (e + 1 = Len(s) /\ IndexOf(UpperLetters, s[e + 1]) > 0))
            THEN s ELSE <<>>
        Pick(first, second, third) ==
            IF first # <<>> THEN first
            ELSE IF second # <<>> THEN Upper(second)
            ELSE Upper(third)
    IN  Pick(ArticleLookup(query_text),
             FirstHit({i \in 1..Len(s) : OfCodeMatchAt(s, i) # <<>>}),
             Whole(IF s = <<>> THEN 0 ELSE DigitRunEnd(s, 1)))

RECURSIVE SplitWords(_)
\* str.split(): the words between runs of white space
SplitWords(s) ==
    LET p == SkipSpaces(s, 1)
        ends == {j \in p..Len(s) : IsSpace(s[j])}
        q == IF ends = {} THEN Len(s) + 1 ELSE CHOOSE j \in ends : \A k \in ends : j <= k
    IN  IF p > Len(s) THEN <<>>
        ELSE <<SubSeq(s, p, q - 1)>> \o SplitWords(SubSeq(s, q, Len(s)))

RECURSIVE Join(_, _)
\* sep.join(parts)
Join(parts, sep) ==
    IF parts = <<>> THEN <<>>
    ELSE IF Len(parts) = 1 THEN parts[1]
    ELSE parts[1] \o sep \o Join(Tail(parts), sep)

RECURSIVE KeepKeywords(_)
\* _extract_keywords, lines 259-265: the loop over the words
KeepKeywords(words) ==
    LET stopwords ==
            {<<"t","h","e">>, <<"a">>, <<"a","n">>, <<"i","s">>, <<"a","r","e">>,
             <<"w","h","a","t">>, <<"w","h","o">>, <<"w","h","e","r","e">>, <<"w","h","e","n">>,
             <<"h","o","w">>, <<"c","a","n">>, <<"d","o">>, <<"d","o","e","s">>, <<"i","n">>,
             <<"o","f">>, <<"t","o">>, <<"f","o","r">>, <<"w","i","t","h">>,
             <<"a","b","o","u","t">>, <<"m","a","l","t","a">>, <<"c","o","d","e">>,
             <<"c","o","m","m","e","r","c","i","a","l">>}
        legal_terms ==
            {<<"b","a","n","k","r","u","p","t","c","y">>, <<"b","a","n","k","r","u","p","t">>,
             <<"t","r","a","d","e","r">>, <<"b","i","l","l">>,
             <<"e","x","c","h","a","n","g","e">>, <<"i","n","s","u","r","a","n","c","e">>,
             <<"m","a","r","i","n","e">>, <<"b","r","o","k","e","r">>, <<"a","g","e","n","t">>,
             <<"f","r","a","u","d">>, <<"p","e","n","a","l","t","y">>,
             <<"c","o","n","t","r","a","c","t">>, <<"o","b","l","i","g","a","t","i","o","n">>,
             <<"d","e","b","t">>}
        word == StripChars(Head(words), {".", ",", "?", "!"})
    IN  IF words = <<>> THEN <<>>
        ELSE (IF word # <<>> /\ (word \notin stopwords \/ word \in legal_terms)
              THEN <<word>> ELSE <<>>) \o KeepKeywords(Tail(words))

\* _extract_keywords, lines 242-267
_extract_keywords(query_text) == KeepKeywords(SplitWords(Lower(query_text)))

\* _analyze_query, lines 86-154
_analyze_query(query_text) ==
    LET query_lower == Lower(query_text)
        AnyOf(terms) == \E term \in terms : Contains(query_lower, term)
        explicit_companies ==
            {<<"c","o","m","p","a","n","i","e","s"," ","a","c","t">>,
             <<"c","a","p","."," ","3","8","6">>, <<"c","a","p"," ","3","8","6">>}
        explicit_commercial ==
            {<<"c","o","m","m","e","r","c","i","a","l"," ","c","o","d","e">>,
             <<"c","a","p","."," ","1","3">>, <<"c","a","p"," ","1","3">>}
        heuristic_companies ==
            {<<"c","o","m","p","a","n","y">>, <<"c","o","m","p","a","n","i","e","s">>,
             <<"s","h","a","r","e","h","o","l","d","e","r">>,
             <<"d","i","r","e","c","t","o","r">>,
             <<"d","i","s","t","r","i","b","u","t","i","o","n">>,
             <<"d","i","v","i","d","e","n","d">>, <<"s","o","l","v","e","n","c","y">>,
             <<"b","a","l","a","n","c","e"," ","s","h","e","e","t">>,
             <<"c","a","p","i","t","a","l"," ","m","a","i","n","t","e","n","a","n","c","e">>,
             <<"m","e","m","o","r","a","n","d","u","m">>,
             <<"a","r","t","i","c","l","e","s"," ","o","f"," ","a","s","s","o","c","i","a","t","i","o","n">>,
             <<"l","i","q","u","i","d","a","t","o","r">>,
             <<"w","i","n","d","i","n","g"," ","u","p">>,
             <<"c","o","m","p","a","n","y"," ","s","e","c","r","e","t","a","r","y">>,
             <<"b","e","n","e","f","i","c","i","a","l"," ","o","w","n","e","r">>}
        Named == IF AnyOf(explicit_companies) THEN "companies_act"
                 ELSE IF AnyOf(explicit_commercial) THEN "code_13"
                 ELSE "none"
        Hint(named) ==
            IF named # "none" THEN named
            ELSE IF AnyOf(heuristic_companies) THEN "companies_act"
            ELSE IF \/ Contains(query_lower, <<"s",".","l",".">>)
                    \/ Contains(query_lower,
                                <<"s","u","b","s","i","d","i","a","r","y"," ","l","e","g","i","s",
                                  "l","a","t","i","o","n">>)
            THEN "sl" ELSE "none"
        Intent == IF AnyOf(
            {<<"w","h","a","t"," ","i","s">>, <<"d","e","f","i","n","e">>,
             <<"m","e","a","n","i","n","g">>}) THEN "definition"
                  ELSE IF AnyOf(
            {<<"h","o","w"," ","t","o">>, <<"p","r","o","c","e","d","u","r","e">>,
             <<"p","r","o","c","e","s","s">>}) THEN "procedural"
                  ELSE IF AnyOf(
            {<<"p","e","n","a","l","t","y">>, <<"f","i","n","e">>,
             <<"p","u","n","i","s","h","m","e","n","t">>}) THEN "penalty"
                  ELSE IF AnyOf(
            {<<"r","e","q","u","i","r","e","m","e","n","t">>, <<"d","u","t","y">>,
             <<"o","b","l","i","g","a","t","i","o","n">>}) THEN "requirement"
                  ELSE IF AnyOf(
            {<<"w","h","e","n">>, <<"t","i","m","e">>, <<"d","e","a","d","l","i","n","e">>,
             <<"p","e","r","i","o","d">>}) THEN "temporal"
                  ELSE "none"
        \* line 137: an article lookup with a hint returns before intent and keywords
        Analysis(article_num, named, doc_hint, early) ==
            [type |-> IF article_num # <<>> THEN "article_lookup" ELSE "general",
             article_num |-> article_num, doc_hint |-> doc_hint,
             doc_hint_explicit |-> named # "none",
             intent |-> IF early THEN "none" ELSE Intent,
             keywords |-> IF early THEN <<>> ELSE _extract_keywords(query_text)]
        Hinted(article_num, named, doc_hint) ==
            Analysis(article_num, named, doc_hint, article_num # <<>> /\ doc_hint # "none")
        Lookup(article_num, named) == Hinted(article_num, named, Hint(named))
    IN  Lookup(ArticleReference(query_text), Named)

\* _enhance_query, lines 176-204
_enhance_query(query_text, analysis) ==
    LET enhancement ==
            IF analysis.intent = "definition" THEN
            <<"d","e","f","i","n","i","t","i","o","n"," ","m","e","a","n","i","n","g"," ","i",
              "n","t","e","r","p","r","e","t"," ","d","e","f","i","n","e"," ","t","e","r","m",
              " ","c","o","n","s","t","r","u","e","d"," ","m","e","a","n","s">>
            ELSE IF analysis.intent = "procedural" THEN
            <<"p","r","o","c","e","d","u","r","e"," ","p","r","o","c","e","s","s"," ","s","t",
              "e","p","s"," ","h","o","w"," ","t","o"," ","a","p","p","l","i","c","a","t","i",
              "o","n"," ","s","h","a","l","l"," ","a","p","p","l","y"," ","f","i","l","i","n",
              "g">>
            ELSE IF analysis.intent = "penalty" THEN
            <<"p","e","n","a","l","t","y"," ","f","i","n","e"," ","p","u","n","i","s","h","m",
              "e","n","t"," ","o","f","f","e","n","c","e"," ","l","i","a","b","l","e"," ","c",
              "o","n","v","i","c","t","i","o","n"," ","c","o","n","t","r","a","v","e","n","t",
              "i","o","n"," ","s","a","n","c","t","i","o","n","s">>
            ELSE IF analysis.intent = "requirement" THEN
            <<"r","e","q","u","i","r","e","m","e","n","t"," ","d","u","t","y"," ","o","b","l",
              "i","g","a","t","i","o","n"," ","m","u","s","t"," ","s","h","a","l","l"," ","r",
              "e","q","u","i","r","e","d"," ","c","o","m","p","l","i","a","n","c","e">>
            ELSE
            <<"t","i","m","e"," ","p","e","r","i","o","d"," ","d","e","a","d","l","i","n","e",
              " ","w","i","t","h","i","n"," ","d","a","y","s"," ","m","o","n","t","h","s"," ",
              "n","o","t"," ","l","a","t","e","r"," ","t","h","a","n"," ","w","h","e","n">>
        nudge == IF analysis.doc_hint = "companies_act"
                 THEN <<<<"C","o","m","p","a","n","i","e","s"," ","A","c","t"," ","C","a","p","."," ","3","8","6">>>>
                 ELSE IF analysis.doc_hint = "code_13"
                 THEN <<<<"C","o","m","m","e","r","c","i","a","l"," ","C","o","d","e"," ","C","a","p","."," ","1","3">>>>
                 ELSE <<>>
    IN  Join(<<query_text>>
             \o (IF analysis.intent # "none" THEN <<enhancement>> ELSE <<>>)
             \o (IF analysis.keywords # <<>> THEN <<Join(analysis.keywords, <<" ">>)>> ELSE <<>>)
             \o nudge,
             <<" ">>)

\* the chunks the engine's collections are made of: those of ChunkPool and article 5
\* of the Companies Act
EngineChunkPool ==
    ChunkPool \cup {IndexedChunk("companies_act_article_5_p1_pos5_chunk_1", "companies_act", <<"5">>, 0)}

\* the collections the engine searches
EngineCollections ==
    UNION {{c \in [1..n -> EngineChunkPool] : \A i, j \in 1..n : i # j => c[i] # c[j]}
              : n \in 0..MaxIndexed}

\* get_article, line 148: the lookup within a document asks for this many chunks
LOOKUP_RESULTS == 100

\* _article_search, line 172: the fallback search asks for this many results
FALLBACK_RESULTS == 5

\* search, line 55
MIN_TOP_SCORE == Frac(45, 100)

\* a call to the vector store: the method and the doc_code its where clause names
StoreCall(op, where) == [op |-> op, where |-> where]

\* VectorStore.get_article, lines 137-188: the lists it may return
GetArticle(coll, article_num, doc_code) ==
    IF doc_code \notin {"none", "sl", "sl_*"}
    THEN {LET nearest == [k \in 1..Len(r) |-> r[k][1]]
              hits == SelectArticle(nearest, article_num)
          IN  hits : r \in NearestAnswers(coll, doc_code, LOOKUP_RESULTS)}
    ELSE {get_article(coll, article_num)}

\* VectorStore.search, lines 112-135: the lists it may return
SearchAnswers(coll, query_text, n, filter) ==
    {_process_results(coll, [k \in 1..Len(r) |-> r[k][1]], [k \in 1..Len(r) |-> r[k][2]],
                      query_text, n)
        : r \in NearestAnswers(coll, filter, Min(n * 2, QUERY_CAP))}

\* _article_search, lines 156-174: the results it may return, each with the calls
\* made to the vector store
_article_search(coll, article_num, doc_hint) ==
    LET Where(doc) == IF doc \in {"sl", "sl_*"} THEN "none" ELSE doc
        Lookup(doc, calls) ==
            {[results |-> r, calls |-> Append(calls, StoreCall("get_article", Where(doc)))]
                : r \in GetArticle(coll, article_num, doc)}
        hinted == IF doc_hint # "none" THEN Lookup(doc_hint, <<>>)
                  ELSE {[results |-> <<>>, calls |-> <<>>]}
        TryNext(outcomes, doc) ==
            UNION {IF o.results # <<>> \/ doc_hint # "none" THEN {o} ELSE Lookup(doc, o.calls)
                      : o \in outcomes}
        looked == TryNext(TryNext(hinted, "companies_act"), "code_13")
        query_text == <<"A","r","t","i","c","l","e"," ">> \o article_num
                      \o <<" ","M","a","l","t","a"," ","C","o","m","m","e","r","c","i","a","l"," ","C","o","d","e"," ","o","r"," ","C","o","m","p","a","n","i","e","s"," ","A","c","t">>
        filter == IF doc_hint \in {"companies_act", "code_13"} THEN doc_hint ELSE "none"
    IN  UNION {IF o.results # <<>> THEN {o}
               ELSE {[results |-> r, calls |-> Append(o.calls, StoreCall("search", filter))]
                        : r \in SearchAnswers(coll, query_text, FALLBACK_RESULTS, filter)}
                  : o \in looked}

\* _score_boost_by_intent, lines 209-229, for an analysis of type general (its
\* article_num is None): the boosts a chunk may get, which its content decides
IntentBoosts(intent) ==
    {Frac(0, 1)} \cup
    (IF intent \in {"definition", "procedural"} THEN {Frac(5, 100)}
     ELSE IF intent = "penalty" THEN {Frac(7, 100)}
     ELSE IF intent \in {"requirement", "temporal"} THEN {Frac(4, 100)}
     ELSE {})

\* _rerank_results_by_intent, lines 231-240: the lists it may return
_rerank_results_by_intent(list, analysis) ==
    {LET rescored == [k \in 1..Len(list) |->
                         [list[k] EXCEPT !.score =
                             FracMin(Frac(1, 1), FracAdd(list[k].score, boosts[k]))]]
     IN  Sorted(rescored, [k \in 1..Len(rescored) |->
                              Frac(-rescored[k].score.num, rescored[k].score.den)])
        : boosts \in [1..Len(list) -> IntentBoosts(analysis.intent)]}

\* search, lines 37-52: the results of the branch taken, each with the calls made
Retrieve(coll, query_text, analysis, max_results) ==
    IF analysis.type = "article_lookup"
    THEN _article_search(coll, analysis.article_num, analysis.doc_hint)
    ELSE LET filter == IF analysis.doc_hint_explicit
                          /\ analysis.doc_hint \in {"companies_act", "code_13"}
                       THEN analysis.doc_hint ELSE "none"
             found == SearchAnswers(coll, _enhance_query(query_text, analysis),
                                    max_results, filter)
         IN  UNION {{[results |-> r, calls |-> <<StoreCall("search", filter)>>]
                       : r \in IF f = <<>> THEN {f}
                               ELSE _rerank_results_by_intent(f, analysis)}
                       : f \in found}

EngineInit ==
    /\ eng_pc = "empty"
    /\ eng_collection = <<>>
    /\ eng_query = <<>>
    /\ query_analysis = <<>>
    /\ store_calls = <<>>
    /\ eng_results = <<>>

\* SearchEngine.__init__: the engine is given a vector store that holds a collection
EngineLoad ==
    /\ eng_pc = "empty"
    /\ eng_collection' \in EngineCollections
    /\ eng_pc' = "ready"
    /\ UNCHANGED <<eng_query, query_analysis, store_calls, eng_results>>
    /\ UNCHANGED nonEngineVars

\* SearchEngine.search, lines 26-84.  A search leaves the collection as it is and
\* reads nothing of the search before it, so one search per collection reaches every
\* result.
EngineSearch ==
    /\ eng_pc = "ready"
    /\ \E text \in EngineQueries, max_results \in 1..MaxResults :
         LET query_text == Strip(text)
             analysis == _analyze_query(query_text)
         IN  \E o \in Retrieve(eng_collection, query_text, analysis, max_results) :
                /\ eng_query' = query_text
                /\ query_analysis' = <<analysis>>
                /\ store_calls' = o.calls
                \* lines 54-57: the evidence gate
                /\ eng_results' = IF o.results = <<>> \/ FracLT(o.results[1].score, MIN_TOP_SCORE)
                                  THEN <<>> ELSE o.results
    /\ eng_pc' = "returned"
    /\ UNCHANGED eng_collection
    /\ UNCHANGED nonEngineVars

EngineNext ==
    \/ EngineLoad
    \/ EngineSearch

(***************************************************************************)
(* process_document over the files of a batch, one run per file, the runs  *)
(* overlapping in time.  The runs share what the code shares: the fields   *)
(* of the DocumentProcessor and the file processed_chunks.json.            *)
(***************************************************************************)
RunInit ==
    /\ run_pc = [r \in 1..MaxFiles |-> "start"]
    /\ run_chunks = [r \in 1..MaxFiles |-> <<>>]
    /\ collected = [r \in 1..MaxFiles |-> <<>>]

\* process_document, line 58: the run writes the document fields of the processor
InferDocumentInfo(r) ==
    /\ ing_pc = "processing"
    /\ r \in 1..Len(files)
    /\ run_pc[r] = "start"
    /\ processor' = _infer_document_info(files[r].stem)
    /\ run_pc' = [run_pc EXCEPT ![r] = "chunk"]
    /\ UNCHANGED <<run_chunks, collected>>
    /\ UNCHANGED <<ing_pc, files, file_idx, processed_chunks, all_chunks, emitted, reprocessed>>
    /\ UNCHANGED nonRunVars

\* process_document, lines 64-71: the articles are cut into chunks, which take their
\* ids and citations from the fields of the processor as they are now
CreateChunks(r) ==
    /\ ing_pc = "processing"
    /\ r \in 1..Len(files)
    /\ run_pc[r] = "chunk"
    /\ run_chunks' = [run_chunks EXCEPT ![r] =
                         ChunksOfArticles(processor, _extract_articles(files[r].content),
                                          MAX_TOKENS, OVERLAP_TOKENS)]
    /\ run_pc' = [run_pc EXCEPT ![r] = "save"]
    /\ UNCHANGED collected
    /\ UNCHANGED ingestVars
    /\ UNCHANGED nonRunVars

\* process_document, lines 74-75: the chunks are written to processed_chunks.json
SaveChunks(r) ==
    /\ ing_pc = "processing"
    /\ r \in 1..Len(files)
    /\ run_pc[r] = "save"
    /\ processed_chunks' = run_chunks[r]
    /\ run_pc' = [run_pc EXCEPT ![r] = "read"]
    /\ UNCHANGED <<run_chunks, collected>>
    /\ UNCHANGED <<ing_pc, files, file_idx, processor, all_chunks, emitted, reprocessed>>
    /\ UNCHANGED nonRunVars

\* main, lines 49-50: the caller of the run reads processed_chunks.json back
ReadBack(r) ==
    /\ ing_pc = "processing"
    /\ r \in 1..Len(files)
    /\ run_pc[r] = "read"
    /\ collected' = [collected EXCEPT ![r] = processed_chunks]
    /\ run_pc' = [run_pc EXCEPT ![r] = "done"]
    /\ UNCHANGED run_chunks
    /\ UNCHANGED ingestVars
    /\ UNCHANGED nonRunVars

RunNext ==
    \/ ListFiles
    \/ \E r \in 1..MaxFiles : InferDocumentInfo(r)
    \/ \E r \in 1..MaxFiles : CreateChunks(r)
    \/ \E r \in 1..MaxFiles : SaveChunks(r)
    \/ \E r \in 1..MaxFiles : ReadBack(r)

(***************************************************************************)
(* The specifications: one per component, the other components at rest.    *)
(***************************************************************************)
Init ==
    /\ CragInit
    /\ ChunkInit
    /\ SegInit
    /\ StoreInit
    /\ IngestInit
    /\ EngineInit
    /\ RunInit
    /\ PageInit

CragSpec == Init /\ [][CragNext]_vars

ChunkSpec == Init /\ [][ChunkNext]_vars

SegSpec == Init /\ [][SegNext]_vars

StoreSpec == Init /\ [][StoreNext]_vars

IngestSpec == Init /\ [][IngestNext]_vars

EngineSpec == Init /\ [][EngineNext]_vars

RunSpec == Init /\ [][RunNext]_vars

PageSpec == Init /\ [][PageNext]_vars

(***************************************************************************)
(* Properties of the corrective pipeline.                                  *)
(***************************************************************************)
\* the replies of the validation calls that succeeded
ValidationCallReplies ==
    {llm_calls[k].reply : k \in {k \in 1..Len(llm_calls) :
                                    llm_calls[k].kind = "validate" /\ llm_calls[k].ok}}

\* the answer with the low-confidence marker and the score in front of it
Flagged(text, confidence) ==
    LOW_CONFIDENCE_OPEN \o FormatTwoDecimals(confidence) \o LOW_CONFIDENCE_CLOSE \o text

\* C1: the confidence of the ValidationResult and of the response is the smaller of
\* the confidence the oracle reported and citation_accuracy, hence never above
\* citation_accuracy.
C1_ConfidenceIsMinOfOracleAndCitation ==
    \A k \in 1..Len(validation) :
        LET v == validation[k]
        IN  /\ FracLE(v.confidence, v.citation_accuracy)
            /\ \A reply \in ValidationCallReplies :
                 LET oracle == _parse_confidence(reply)
                 IN  /\ FracLE(v.confidence, oracle)
                     /\ FracEq(v.confidence, oracle) \/ FracEq(v.confidence, v.citation_accuracy)
            /\ \A j \in 1..Len(response) :
                 /\ response[j].confidence = v.confidence
                 /\ response[j].validation_result = v
                 /\ FracLE(response[j].confidence, response[j].validation_result.citation_accuracy)

\* C1 witness: a response whose oracle-reported confidence was above the citation
\* accuracy, so that the cap acted.
C1_Witness ==
    /\ response # <<>>
    /\ \E reply \in ValidationCallReplies :
         FracLT(response[1].validation_result.citation_accuracy, _parse_confidence(reply))
    /\ FracLT(Frac(0, 1), response[1].confidence)

\* the stages completed when the pipeline stands at a given place
StagesDoneAt(place) ==
    CASE place = "idle"      -> <<>>
      [] place = "grade"     -> <<>>
      [] place = "generate"  -> <<"grade">>
      [] place = "validate"  -> <<"grade", "generate">>
      [] place = "threshold" -> <<"grade", "generate", "validate">>
      [] place = "done"      -> <<"grade", "generate", "validate", "threshold">>

NoCallFailed == \A k \in 1..Len(llm_calls) : llm_calls[k].ok

\* C6: without an oracle failure the stages run in the order grade (every candidate),
\* generate, validate, threshold, each once; the response is returned when the
\* threshold stage completes and is ACCEPTED (answer unmodified) or
\* FLAGGED_LOW_CONFIDENCE (answer prefixed), never both and never suppressed.
C6_StagesInOrderThenOneOutcome ==
    NoCallFailed =>
        /\ pc # "error"
        /\ stage_log = StagesDoneAt(pc)
        /\ stage_log # <<>> =>
             /\ Len(grades) = Len(retrieved_docs)
             /\ Cardinality({k \in 1..Len(llm_calls) : llm_calls[k].kind = "grade"})
                  = Len(retrieved_docs)
        /\ pc = "done" <=> response # <<>>
        /\ \A j \in 1..Len(response) :
             LET accepted == response[j].answer = answer
                 flagged  == response[j].answer = Flagged(answer, response[j].confidence)
             IN  (accepted \/ flagged) /\ ~(accepted /\ flagged)

\* C6 witness: a run with two candidates that ended ACCEPTED.
C6_Witness ==
    /\ pc = "done"
    /\ Len(retrieved_docs) = 2
    /\ response[1].answer = answer
    /\ stage_log = <<"grade", "generate", "validate", "threshold">>

\* C7: the returned answer is the generated answer behind the low-confidence marker
\* and score exactly when the final confidence is below 0.85, and is the generated
\* answer itself otherwise.
C7_PrefixedIffBelowThreshold ==
    \A j \in 1..Len(response) :
        LET r == response[j]
        IN  /\ FracLT(r.confidence, Frac(85, 100)) => r.answer = Flagged(answer, r.confidence)
            /\ ~FracLT(r.confidence, Frac(85, 100)) => r.answer = answer
            /\ r.answer = Flagged(answer, r.confidence) => FracLT(r.confidence, Frac(85, 100))

\* C7 witness: a response whose final confidence is exactly the threshold.
C7_Witness ==
    /\ response # <<>>
    /\ FracEq(response[1].confidence, Frac(85, 100))
    /\ response[1].answer = answer

\* C8 as stated: with an empty evidence set the answer of the response is the fixed
\* insufficiency string.
C8_Original_AnswerIsInsufficiencyString ==
    \A j \in 1..Len(response) :
        response[j].relevant_docs = <<>> => response[j].answer = INSUFFICIENT_ANSWER

\* C8 amended: with an empty evidence set generate_answer returns the fixed
\* insufficiency string, the final confidence is at most 0.5, and the answer of the
\* response is that string behind the low-confidence marker and score.
C8_InsufficiencyStringFlagged ==
    /\ (pc \in {"validate", "threshold", "done"} /\ relevant_docs = <<>>)
         => answer = INSUFFICIENT_ANSWER
    /\ \A j \in 1..Len(response) :
         response[j].relevant_docs = <<>> =>
             /\ FracLE(response[j].confidence, Frac(1, 2))
             /\ response[j].answer = Flagged(INSUFFICIENT_ANSWER, response[j].confidence)

\* C8 witness: every candidate was graded IRRELEVANT and the response was returned.
C8_Witness ==
    /\ response # <<>>
    /\ Len(retrieved_docs) > 0
    /\ response[1].relevant_docs = <<>>
    /\ \A k \in 1..Len(grades) : grades[k].grade = "IRRELEVANT"

CallRank(kind) ==
    CASE kind = "grade" -> 1 [] kind = "generate" -> 2 [] kind = "validate" -> 3

GenerationCalls == {k \in 1..Len(llm_calls) : llm_calls[k].kind = "generate"}

\* C9: with an empty evidence set no generation call is made in the run; with a
\* non-empty one exactly one is made, after every grading call and before the
\* validation call.
C9_GenerationCallOnlyWithEvidence ==
    /\ \A i, j \in 1..Len(llm_calls) :
         i < j => CallRank(llm_calls[i].kind) <= CallRank(llm_calls[j].kind)
    /\ Cardinality(GenerationCalls) <= 1
    /\ \A k \in GenerationCalls :
         /\ llm_calls[k].docs # <<>>
         /\ k = Len(retrieved_docs) + 1
         /\ \A i \in 1..(k - 1) : llm_calls[i].kind = "grade" /\ llm_calls[i].ok
    /\ ("grade" \in {stage_log[k] : k \in 1..Len(stage_log)} /\ relevant_docs = <<>>)
         => GenerationCalls = {}
    /\ ("generate" \in {stage_log[k] : k \in 1..Len(stage_log)} /\ relevant_docs # <<>>)
         => Cardinality(GenerationCalls) = 1
    /\ \A k \in 1..Len(llm_calls) :
         (llm_calls[k].kind = "validate" /\ relevant_docs # <<>>)
             => \E i \in GenerationCalls : i < k

\* C9 witness: a finished run in which one of two candidates was filtered out and
\* the generation call stands between the grading calls and the validation call.
C9_Witness ==
    /\ pc = "done"
    /\ Len(retrieved_docs) = 2
    /\ Len(relevant_docs) = 1
    /\ llm_calls[3].kind = "generate"
    /\ llm_calls[4].kind = "validate"

\* the positions of the candidates whose grade is not IRRELEVANT
KeptPositions(gs) == {k \in 1..Len(gs) : gs[k].grade # "IRRELEVANT"}

\* C10: grade_details holds one grade per retrieved candidate in retrieval order,
\* relevant_docs is the subsequence of the candidates graded RELEVANT or PARTIAL,
\* and only those candidates are handed to generation and validation.
C10_AuditTrailAndEvidence ==
    /\ \A j \in 1..Len(response) :
         LET r    == response[j]
             kept == KeptPositions(r.grade_details)
         IN  /\ Len(r.grade_details) = Len(retrieved_docs)
             /\ \A k \in 1..Len(retrieved_docs) :
                  /\ r.grade_details[k].document_id = retrieved_docs[k].id
                  /\ r.grade_details[k].grade \in {"RELEVANT", "PARTIAL", "IRRELEVANT"}
             /\ Len(r.relevant_docs) = Cardinality(kept)
             /\ \A n \in 1..Len(r.relevant_docs) :
                  r.relevant_docs[n] =
                      retrieved_docs[CHOOSE k \in kept :
                                        Cardinality({i \in kept : i <= k}) = n]
    /\ \A c \in 1..Len(llm_calls) :
         llm_calls[c].kind \in {"generate", "validate"} =>
             /\ Len(grades) = Len(retrieved_docs)
             /\ Len(llm_calls[c].docs) = Cardinality(KeptPositions(grades))
             /\ \A n \in 1..Len(llm_calls[c].docs) :
                  \E k \in KeptPositions(grades) : retrieved_docs[k].id = llm_calls[c].docs[n]

\* C10 witness: a response whose audit trail holds an IRRELEVANT grade and whose
\* evidence is the one candidate graded PARTIAL.
C10_Witness ==
    /\ response # <<>>
    /\ Len(response[1].grade_details) = 2
    /\ response[1].grade_details[1].grade = "IRRELEVANT"
    /\ response[1].grade_details[2].grade = "PARTIAL"
    /\ response[1].relevant_docs = <<retrieved_docs[2]>>

(***************************************************************************)
(* The provision segmenter.                                                *)
(***************************************************************************)
\* heading i was accepted by the primary pass: its label is in the list with the
\* text of its block
PrimaryAccepted(i) ==
    /\ document[i].kind = "heading"
    /\ \E k \in 1..Len(articles) :
         /\ articles[k].article = normalize_article_id(document[i].label)
         /\ articles[k].content = CleanContent(document, i + 1, BlockEnd(document, i))

\* the candidates that stand in the text after a heading the primary pass accepted,
\* with a key that is not above that heading's key and a label no other candidate has
LateCandidates ==
    {j \in 1..Len(document) :
        /\ document[j].kind \in {"heading", "ref"}
        /\ \E i \in 1..(j - 1) :
             /\ PrimaryAccepted(i)
             /\ FracLE(article_numeric_value(document[j].label),
                       article_numeric_value(document[i].label))
        /\ \A m \in 1..Len(document) :
             (m # j /\ document[m].kind \in {"heading", "ref"}) =>
                normalize_article_id(document[m].label)
                   # normalize_article_id(document[j].label)}

\* C2: the list _extract_articles returns, after the primary pass, the fallback
\* pass and the sort, has strictly increasing keys and no label twice, and it is in
\* the order the articles were accepted in; a candidate that follows an accepted
\* heading with a key not above that heading's key is not in the list.
C2_StrictlyIncreasingKeysUniqueLabels ==
    seg_pc = "done" =>
        /\ \A i, j \in 1..Len(articles) :
             i < j =>
                /\ FracLT(article_numeric_value(articles[i].article),
                          article_numeric_value(articles[j].article))
                /\ articles[i].article # articles[j].article
                /\ articles[i].position < articles[j].position
        /\ \A j \in LateCandidates :
             \A k \in 1..Len(articles) :
                articles[k].article # normalize_article_id(document[j].label)

\* a document whose accepted heading is followed by prose that mentions a
\* smaller number, with text after it
C2_Witness ==
    /\ seg_pc = "done"
    /\ Len(articles) >= 1
    /\ \E j \in LateCandidates : document[j].kind = "ref" /\ j < Len(document)

\* C21: the key of a label with a suffix letter lies strictly between its base
\* integer and the next integer and grows with the letter, and two candidates of a
\* segmented document with different labels never have equal keys.
C21_KeyStrictlyBetweenBaseAndNext ==
    LET cands == {i \in 1..Len(document) : document[i].kind \in {"heading", "ref"}}
        label(i) == normalize_article_id(document[i].label)
        base(i) == DigitsValue(LabelDigits(label(i)))
        key(i) == article_numeric_value(document[i].label)
    IN  seg_pc = "done" =>
            \A i, j \in cands :
                /\ LabelSuffix(label(i)) # <<>> =>
                      /\ FracLT(Frac(base(i), 1), key(i))
                      /\ FracLT(key(i), Frac(base(i) + 1, 1))
                /\ (/\ base(i) = base(j)
                    /\ LabelSuffix(label(i)) # <<>> /\ LabelSuffix(label(j)) # <<>>
                    /\ IndexOf(UpperLetters, LabelSuffix(label(i))[1])
                         < IndexOf(UpperLetters, LabelSuffix(label(j))[1]))
                      => FracLT(key(i), key(j))
                /\ label(i) # label(j) => ~FracEq(key(i), key(j))

\* C25: page_for_index returns the page of the last marker whose offset is at or
\* before the position, as a scan of the markers from the first to the last finds
\* it; page 1 when there is no marker, and the first marker's page when the position
\* precedes every marker.
C25_PageIsLastMarkerAtOrBefore ==
    pg_pc = "done" =>
        LET before == {k \in 1..Len(pg_positions) : pg_positions[k].start <= pg_idx}
        IN  IF pg_positions = <<>> THEN pg_page = 1
            ELSE IF before = {} THEN pg_page = pg_positions[1].page
            ELSE pg_page = pg_positions[CHOOSE k \in before : \A j \in before : j <= k].page

\* four markers with their own page numbers by turns, the position standing on the
\* third marker
C25_Witness ==
    /\ pg_pc = "done"
    /\ Len(pg_positions) = 4
    /\ pg_idx = pg_positions[3].start
    /\ pg_positions[2].page # pg_positions[3].page
    /\ pg_positions[4].page # pg_positions[3].page
    /\ pg_positions[1].page # pg_positions[3].page
    /\ pg_page = pg_positions[3].page

\* C30: the fallback pass goes on from the last key the primary pass accepted: the
\* provisions of the primary pass stay first in the returned list, in their order,
\* every provision the fallback pass adds has a key strictly greater than each of
\* theirs, and after the sort the position fields are 1..N in the order of the list.
C30_FallbackContinuesFromPrimary ==
    [][seg_pc = "primary" =>
          /\ Len(articles') >= Len(articles)
          /\ SubSeq(articles', 1, Len(articles)) = articles
          /\ \A k \in (Len(articles) + 1)..Len(articles') :
               \A i \in 1..Len(articles) :
                  FracLT(article_numeric_value(articles[i].article),
                         article_numeric_value(articles'[k].article))
          /\ \A k \in 1..Len(articles') : articles'[k].position = k]_vars

\* a document of which the primary pass accepted one provision and the fallback
\* pass added another
C30_Witness ==
    /\ seg_pc = "done"
    /\ Len(articles) = 2
    /\ Len(PrimaryPass(document, 1,
                       [articles |-> <<>>, prev_val |-> Frac(-1, 1),
                        seen_ids |-> {}]).articles) = 1

(***************************************************************************)
(* The chunk builder.                                                      *)
(***************************************************************************)
\* C5: for an article split into several chunks, total_chunks on every chunk is
\* the number of chunks emitted for it, and every chunk_index is below it.
C5_TotalChunksIsEmittedCount ==
    (ck_pc = "done" /\ n_tokens > max_tokens) =>
        \A k \in 1..Len(chunks) :
            /\ chunks[k].total_chunks = Len(chunks)
            /\ chunks[k].chunk_index < chunks[k].total_chunks

\* C16: a provision within the budget gives exactly one chunk, of index 0 and total 1;
\* the chunks of a longer provision carry one total_chunks value, their indexes are
\* 0..N-1 in order, and each starts at a smaller token offset than the next.
C16_OneChunkOrContiguousSiblings ==
    ck_pc = "done" =>
        IF n_tokens <= max_tokens
        THEN /\ Len(chunks) = 1
             /\ chunks[1].chunk_index = 0
             /\ chunks[1].total_chunks = 1
        ELSE /\ \A i, j \in 1..Len(chunks) : chunks[i].total_chunks = chunks[j].total_chunks
             /\ \A k \in 1..Len(chunks) : chunks[k].chunk_index = k - 1
             /\ \A k \in 1..(Len(chunks) - 1) : chunks[k].first < chunks[k + 1].first

\* a provision cut into three chunks or more
C16_Witness ==
    /\ ck_pc = "done"
    /\ n_tokens > max_tokens
    /\ Len(chunks) >= 3

\* C17: every chunk covers at most max_tokens tokens of the provision's token stream.
C17_ChunkWithinBudget ==
    \A k \in 1..Len(chunks) :
        /\ 0 <= chunks[k].first
        /\ chunks[k].first <= chunks[k].last
        /\ chunks[k].last <= n_tokens
        /\ chunks[k].last - chunks[k].first <= max_tokens

\* a provision of the real configuration whose middle chunk fills the budget
C17_Witness ==
    /\ ck_pc = "done"
    /\ max_tokens = MAX_TOKENS
    /\ Len(chunks) >= 3
    /\ chunks[2].last - chunks[2].first = MAX_TOKENS

\* C20: for a provision longer than the budget, no chunk is emitted once the tail left
\* after the previous chunk is smaller than the overlap: the last chunk brings at
\* least overlap_tokens tokens that the chunk before it does not hold.
C20_NoNearDuplicateTrailingChunk ==
    (ck_pc = "done" /\ n_tokens > max_tokens) =>
        \A k \in 2..Len(chunks) :
            chunks[k].last - chunks[k - 1].last >= overlap_tokens

\* C26: the chunks of a provision longer than the budget cover its token stream:
\* the first starts at token 0, each next one starts overlap_tokens before the end of
\* the one before it, the last ends at the final token, and every token is in a chunk.
C26_ChunksCoverTheTokenStream ==
    (ck_pc = "done" /\ n_tokens > max_tokens) =>
        /\ chunks[1].first = 0
        /\ \A k \in 2..Len(chunks) : chunks[k].first = chunks[k - 1].last - overlap_tokens
        /\ chunks[Len(chunks)].last = n_tokens
        /\ \A t \in 0..(n_tokens - 1) :
             \E k \in 1..Len(chunks) : chunks[k].first <= t /\ t < chunks[k].last

\* a provision of three chunks cut with an overlap, the last shorter than the budget
C26_Witness ==
    /\ ck_pc = "done"
    /\ overlap_tokens > 0
    /\ Len(chunks) = 3
    /\ chunks[3].last - chunks[3].first < max_tokens
    /\ chunks[3].last = n_tokens

\* C27: the windowing loop terminates: an iteration that does not exit leaves the
\* window start strictly greater than it was and inside the token stream, and the
\* iteration whose window reaches the end of the token stream exits the loop.
C27_WindowingLoopTerminates ==
    [][ck_pc = "loop" =>
          /\ ck_pc' = "loop" => (start < start' /\ start' < n_tokens)
          /\ chunks'[Len(chunks')].last = n_tokens => ck_pc' = "done"
          /\ ck_pc' = "done" => chunks'[Len(chunks')].last = n_tokens]_vars

\* the loop after two iterations that did not exit, cut with an overlap
C27_Witness ==
    /\ ck_pc = "loop"
    /\ overlap_tokens > 0
    /\ Len(chunks) = 2
    /\ start > chunks[2].first

(***************************************************************************)
(* The vector store.                                                       *)
(***************************************************************************)
\* C3: the list search returns never holds two candidates with the same
\* (doc_code, article), on the direct article lookup as on the semantic path.
C3_NoTwoCandidatesWithSameKey ==
    st_pc = "returned" =>
        \A i, j \in 1..Len(results) :
            (results[i].doc_code = results[j].doc_code
                /\ results[i].article = results[j].article) => i = j

(***************************************************************************)
(* The batch of source files.                                              *)
(***************************************************************************)
\* C4: over a batch no two chunks made, whether from different files or from
\* different articles or windows of one file, get the same id, so that removing
\* the duplicates by id drops no chunk.
C4_ChunkIdsGloballyUnique ==
    ing_pc = "saved" =>
        /\ \A i, j \in 1..Len(emitted) :
             emitted[i].chunk.id = emitted[j].chunk.id => i = j
        /\ Len(all_chunks) = Len(emitted)

C11_FailedCallEndsInvocation ==
    /\ \A k \in 1..Len(llm_calls) :
         ~llm_calls[k].ok => (k = Len(llm_calls) /\ pc = "error")
    /\ pc = "error" =>
         /\ llm_calls # <<>>
         /\ ~llm_calls[Len(llm_calls)].ok
         /\ response = <<>>

\* the validation call fails after the grading and generation calls succeeded
C11_Witness ==
    /\ pc = "error"
    /\ Len(llm_calls) >= 3
    /\ llm_calls[Len(llm_calls)].kind = "validate"
    /\ ~llm_calls[Len(llm_calls)].ok

\* the successful grading calls, in order
GradingCalls ==
    SelectSeq(llm_calls, LAMBDA c : c.kind = "grade" /\ c.ok)

\* C23: every grading reply gets exactly one grade, with the prior fixed for it:
\* RELEVANT with 0.95, IRRELEVANT with 0.90, PARTIAL with 0.70, and PARTIAL with 0.50
\* for a reply that names none of the three words; a reply that contains IRRELEVANT
\* is never graded RELEVANT.
C23_OneGradeWithItsFixedPrior ==
    /\ Len(grades) = Len(GradingCalls)
    /\ \A k \in 1..Len(grades) :
         LET reply == Upper(GradingCalls[k].reply)
             names_relevant == Contains(reply, <<"R","E","L","E","V","A","N","T">>)
             names_irrelevant == Contains(reply, <<"I","R","R","E","L","E","V","A","N","T">>)
             names_partial == Contains(reply, <<"P","A","R","T","I","A","L">>)
             g == grades[k]
         IN  /\ g.reasoning = GradingCalls[k].reply
             /\ g.document_id = retrieved_docs[k].id
             /\ \/ g.grade = "RELEVANT" /\ FracEq(g.confidence, Frac(95, 100))
                \/ g.grade = "IRRELEVANT" /\ FracEq(g.confidence, Frac(90, 100))
                \/ g.grade = "PARTIAL" /\ FracEq(g.confidence, Frac(70, 100))
                \/ g.grade = "PARTIAL" /\ FracEq(g.confidence, Frac(50, 100))
             /\ (g.grade = "PARTIAL" /\ FracEq(g.confidence, Frac(70, 100))) => names_partial
             /\ (g.grade = "PARTIAL" /\ FracEq(g.confidence, Frac(50, 100)))
                  <=> (~names_relevant /\ ~names_irrelevant /\ ~names_partial)
             /\ names_irrelevant => g.grade = "IRRELEVANT"
             /\ g.grade = "RELEVANT" => names_relevant

\* two candidates graded, one on a reply that contains IRRELEVANT and one on a
\* reply that names none of the three words
C23_Witness ==
    /\ Len(grades) = 2
    /\ \E i, j \in 1..2 :
         /\ Contains(Upper(grades[i].reasoning), <<"I","R","R","E","L","E","V","A","N","T">>)
         /\ grades[i].grade = "IRRELEVANT"
         /\ grades[j].grade = "PARTIAL" /\ FracEq(grades[j].confidence, Frac(50, 100))

\* the reply has a line that holds the marker, in any case, and a digit
HoldsNumberedField(reply, marker) ==
    \E k \in 1..Len(SplitOn(reply, "\n")) :
        /\ Contains(Upper(SplitOn(reply, "\n")[k]), marker)
        /\ \E c \in 1..Len(SplitOn(reply, "\n")[k]) : IsDigit(SplitOn(reply, "\n")[k][c])

C12_HeuristicHintNeverFilters ==
    (/\ eng_pc = "returned"
     /\ query_analysis[1].doc_hint # "none"
     /\ ~query_analysis[1].doc_hint_explicit)
    => \A k \in 1..Len(store_calls) : store_calls[k].where = "none"

\* C13: when the query names a statute and the collection holds a provision of that
\* statute and a provision of another statute under the same label, every result of
\* the search is a chunk of the named statute.
C13_OnlyTheNamedStatute ==
    (/\ eng_pc = "returned"
     /\ query_analysis[1].doc_hint_explicit
     /\ \E i, j \in 1..Len(eng_collection) :
           /\ eng_collection[i].doc_code = query_analysis[1].doc_hint
           /\ eng_collection[j].doc_code # query_analysis[1].doc_hint
           /\ eng_collection[i].article = eng_collection[j].article)
    => \A k \in 1..Len(eng_results) : eng_results[k].doc_code = query_analysis[1].doc_hint

\* the labels a question refers to as 'Article <label>' or 'Art. <label>', a label
\* being digits with at most one upper-case letter after them, in the order of the
\* question
ExplicitReferences(question) ==
    LET IsWord(c) == IndexOf(LowerLetters, c) > 0 \/ IndexOf(UpperLetters, c) > 0 \/ IsDigit(c)
        low == Lower(question)
        HasAt(w, p) == p + Len(w) - 1 <= Len(low) /\ SubSeq(low, p, p + Len(w) - 1) = w
        LabelEnd(e) ==
            IF e < Len(question) /\ IndexOf(UpperLetters, question[e + 1]) > 0
            THEN e + 1 ELSE e
        LabelFrom(d) ==
            IF d <= Len(question) /\ IsDigit(question[d])
                 /\ (LabelEnd(DigitRunEnd(question, d)) = Len(question)
                     \/ ~IsWord(question[LabelEnd(DigitRunEnd(question, d)) + 1]))
            THEN SubSeq(question, d, LabelEnd(DigitRunEnd(question, d))) ELSE <<>>
        At(i) ==
            IF i > 1 /\ IsWord(question[i - 1]) THEN <<>>
            ELSE IF HasAt(<<"a","r","t","i","c","l","e"," ">>, i) THEN LabelFrom(i + 8)
            ELSE IF HasAt(<<"a","r","t","."," ">>, i) THEN LabelFrom(i + 5)
            ELSE <<>>
        places == {i \in 1..Len(question) : At(i) # <<>>}
        nth(k) == CHOOSE i \in places : Cardinality({j \in places : j <= i}) = k
    IN  [k \in 1..Cardinality(places) |-> At(nth(k))]

\* C22: a question that holds an explicit reference 'Article <label>' or
\* 'Art. <label>' is analysed as an article lookup whose article_num is that label,
\* its letter suffix included.
C22_ExplicitReferenceIsLookedUp ==
    (eng_pc = "returned" /\ ExplicitReferences(eng_query) # <<>>) =>
        /\ query_analysis[1].type = "article_lookup"
        /\ query_analysis[1].article_num = ExplicitReferences(eng_query)[1]

(***************************************************************************)
(* Properties of overlapping runs.                                         *)
(***************************************************************************)
\* C14: whatever the interleaving of the runs, the chunks the caller of a run reads
\* back are the chunks, with the ids and citation metadata, that processing that file
\* alone produces.
C14_RunsDoNotInterfere ==
    \A r \in 1..Len(files) :
        run_pc[r] = "done" =>
            collected[r] = ChunksOfArticles(_infer_document_info(files[r].stem),
                                            _extract_articles(files[r].content),
                                            MAX_TOKENS, OVERLAP_TOKENS)

(***************************************************************************)
(* Properties of the citation check.                                       *)
(***************************************************************************)
\* the bracketed citations of a text: every stretch that ends at a "]" holds at most
\* one, which runs from its first "[" to its end and is not empty
BracketedCitations(text) ==
    LET parts == SplitOn(text, "]")
        Opening(k) == FindFrom(parts[k], "[", 1)
        holds == {k \in 1..(Len(parts) - 1) : Opening(k) > 0 /\ Opening(k) < Len(parts[k])}
    IN  [k \in holds |-> SubSeq(parts[k], Opening(k) + 1, Len(parts[k]))]

\* a citation matches when, case aside, it contains or is contained in the citation
\* string of an evidence chunk or "Article " followed by the chunk's label
MatchesEvidence(citation, evidence) ==
    \E k \in 1..Len(evidence) :
        LET m     == evidence[k].metadata
            names == (IF m.citation # <<>> THEN {m.citation} ELSE {})
                     \cup (IF m.article # <<>>
                           THEN {<<"A","r","t","i","c","l","e"," ">> \o m.article} ELSE {})
            c     == Lower(Strip(citation))
        IN  \E name \in names : Contains(Lower(name), c) \/ Contains(c, Lower(name))

\* C15: the citation accuracy of a validated answer is 0.5 when the answer holds no
\* bracketed citation, else the matched citations over all of them, and lies in [0, 1].
C15_CitationAccuracyIsMatchedOverTotal ==
    validation # <<>> =>
        LET cited   == BracketedCitations(answer)
            matched == {k \in DOMAIN cited : MatchesEvidence(cited[k], relevant_docs)}
            acc     == validation[1].citation_accuracy
        IN  /\ IF DOMAIN cited = {} THEN FracEq(acc, Frac(1, 2))
               ELSE FracEq(acc, Frac(Cardinality(matched), Cardinality(DOMAIN cited)))
            /\ FracLE(Frac(0, 1), acc)
            /\ FracLE(acc, Frac(1, 1))

\* an answer with three citations of which one matches
C15_Witness ==
    /\ validation # <<>>
    /\ Len(FindAllCitations(answer, 1)) = 3
    /\ FracEq(validation[1].citation_accuracy, Frac(1, 3))

\* a citation refers to a provision of the evidence when the article it names is the
\* label of an evidence chunk
RefersToEvidence(citation, evidence) ==
    /\ ArticleLookup(citation) # <<>>
    /\ \E k \in 1..Len(evidence) :
          Upper(evidence[k].metadata.article) = ArticleLookup(citation)

\* C19: a citation counts as matched only if it refers to a provision of the evidence:
\* the citation accuracy of a validated answer with citations is at most the share of
\* its citations that name the label of an evidence chunk, so a citation of a label no
\* chunk carries, or an all but empty bracket, lowers it.
C19_OnlyEvidenceCitationsCount ==
    (validation # <<>> /\ FindAllCitations(answer, 1) # <<>>) =>
        LET cited  == FindAllCitations(answer, 1)
            refers == {k \in 1..Len(cited) : RefersToEvidence(cited[k], relevant_docs)}
        IN  FracLE(validation[1].citation_accuracy, Frac(Cardinality(refers), Len(cited)))

\* C28: when the generated answer holds no bracketed citation, the insufficiency
\* answer included, the final confidence is at most 0.5 whatever the oracle reports,
\* and a response, when one is returned, is flagged as low confidence and is never
\* the bare answer.
C28_UncitedAnswerIsFlagged ==
    DOMAIN BracketedCitations(answer) = {} =>
        /\ \A k \in 1..Len(validation) : FracLE(validation[k].confidence, Frac(1, 2))
        /\ \A j \in 1..Len(response) :
             /\ FracLE(response[j].confidence, Frac(1, 2))
             /\ response[j].answer = Flagged(answer, response[j].confidence)
             /\ response[j].answer # answer

\* an answer of the oracle without a complete citation, validated on a reply that
\* reports a confidence above the threshold
C28_Witness ==
    /\ pc = "done"
    /\ answer # INSUFFICIENT_ANSWER
    /\ DOMAIN BracketedCitations(answer) = {}
    /\ \E reply \in ValidationCallReplies : FracLE(Frac(85, 100), _parse_confidence(reply))
    /\ FracEq(response[1].confidence, Frac(1, 2))

\* C29: the final confidence of every validation result and of every response lies
\* in [0, 1], whatever the CONFIDENCE line of the oracle's reply holds.
C29_FinalConfidenceInUnitInterval ==
    /\ \A k \in 1..Len(validation) :
         /\ FracLE(Frac(0, 1), validation[k].confidence)
         /\ FracLE(validation[k].confidence, Frac(1, 1))
    /\ \A j \in 1..Len(response) :
         /\ FracLE(Frac(0, 1), response[j].confidence)
         /\ FracLE(response[j].confidence, Frac(1, 1))

\* a response made on a reply whose CONFIDENCE line holds 85, for an answer whose
\* citations all match
C29_Witness ==
    /\ pc = "done"
    /\ \E reply \in ValidationCallReplies : FracLT(Frac(1, 1), _parse_confidence(reply))
    /\ FracEq(response[1].confidence, Frac(1, 1))

====
